---- MODULE Spec2Model ----
(***************************************************************************)
(* Model of the configuration manager (src/config_manager.py), of the      *)
(* admin gate of the hierarchy explorer                                    *)
(* (src/foundation_data_v2/foundation_app.py), of the record detective     *)
(* (src/foundation_data_v2/panels/statistics_panel.py) and of the frame    *)
(* functions of the payroll tool (src/payroll/app.py).                     *)
(*                                                                         *)
(* Python strings are sequences of symbols.  A symbol is either one of the *)
(* characters that some piece of the code treats specially (quote,         *)
(* backslash, newline, space, comma, bar, brackets, braces, colon) or a    *)
(* run of ordinary characters that no code path looks into                 *)
(* ("effectiveStartDate").  Python values are tagged records [k, v].       *)
(***************************************************************************)
EXTENDS Integers, Sequences, FiniteSets, TLC

(***************************************************************************)
(* Python values                                                           *)
(***************************************************************************)
None == [k |-> "none", v |-> <<>>]
PStr(s) == [k |-> "str", v |-> s]
PList(xs) == [k |-> "list", v |-> xs]
PDict(kvs) == [k |-> "dict", v |-> kvs]
PNum(s) == [k |-> "num", v |-> s]

\* bool(x) for the values the code tests with `or`, `not` and `if`
Truthy(x) ==
  CASE x.k = "none" -> FALSE
    [] x.k = "num" -> x.v # <<"0">>
    [] OTHER -> x.v # <<>>

\* d[key] / d.get(key, dflt) on a dict kept as a sequence of <<key, value>>
RECURSIVE DictGet(_, _, _)
DictGet(kvs, key, dflt) ==
  IF kvs = <<>> THEN dflt
  ELSE IF Head(kvs)[1] = key THEN Head(kvs)[2]
  ELSE DictGet(Tail(kvs), key, dflt)

\* d[key] = val: replaces in place, appends a new key at the end
DictSet(kvs, key, val) ==
  IF \E i \in 1..Len(kvs) : kvs[i][1] = key
  THEN [i \in 1..Len(kvs) |-> IF kvs[i][1] = key THEN <<key, val>> ELSE kvs[i]]
  ELSE Append(kvs, <<key, val>>)

\* the dict literal of a template row (config_manager.py:50, 190-194, 304-308)
Row(c1, c2, d) ==
  PDict(<< <<"target_column1", PStr(c1)>>,
           <<"target_column2", PStr(c2)>>,
           <<"description", PStr(d)>> >>)

(***************************************************************************)
(* json.dump(obj, f, indent=2) and json.load(f)                            *)
(***************************************************************************)
QUOTE == "\""
BSLASH == "\\"
NL == "\n"
SP == " "

Indent(n) == [i \in 1..(2 * n) |-> SP]

\* string escaping of the encoder: quote, backslash and newline
RECURSIVE JsonEscape(_)
JsonEscape(s) ==
  IF s = <<>> THEN <<>>
  ELSE LET c == Head(s)
           e == CASE c = QUOTE -> <<BSLASH, QUOTE>>
                  [] c = BSLASH -> <<BSLASH, BSLASH>>
                  [] c = NL -> <<BSLASH, "n">>
                  [] OTHER -> <<c>>
       IN e \o JsonEscape(Tail(s))

JsonStr(s) == <<QUOTE>> \o JsonEscape(s) \o <<QUOTE>>

RECURSIVE JsonDumps(_, _)
RECURSIVE JsonDumpItems(_, _, _)
RECURSIVE JsonDumpPairs(_, _, _)
JsonDumps(x, lvl) ==
  CASE x.k = "none" -> <<"null">>
    [] x.k = "num" -> x.v
    [] x.k = "str" -> JsonStr(x.v)
    [] x.k = "list" ->
         IF x.v = <<>> THEN <<"[", "]">>
         ELSE <<"[">> \o JsonDumpItems(x.v, 1, lvl + 1)
                      \o <<NL>> \o Indent(lvl) \o <<"]">>
    [] x.k = "dict" ->
         IF x.v = <<>> THEN <<"{", "}">>
         ELSE <<"{">> \o JsonDumpPairs(x.v, 1, lvl + 1)
                      \o <<NL>> \o Indent(lvl) \o <<"}">>
JsonDumpItems(xs, i, lvl) ==
  IF i > Len(xs) THEN <<>>
  ELSE (IF i > 1 THEN <<",">> ELSE <<>>) \o <<NL>> \o Indent(lvl)
         \o JsonDumps(xs[i], lvl) \o JsonDumpItems(xs, i + 1, lvl)
JsonDumpPairs(kvs, i, lvl) ==
  IF i > Len(kvs) THEN <<>>
  ELSE (IF i > 1 THEN <<",">> ELSE <<>>) \o <<NL>> \o Indent(lvl)
         \o JsonStr(<<kvs[i][1]>>) \o <<":", SP>>
         \o JsonDumps(kvs[i][2], lvl)
         \o JsonDumpPairs(kvs, i + 1, lvl)

JsonDump(x) == JsonDumps(x, 0)

\* The decoder.  A result is [ok, val, pos]: pos is the index after the
\* value; ok = FALSE stands for json.JSONDecodeError.
PFail == [ok |-> FALSE, val |-> None, pos |-> 0]
POk(x, p) == [ok |-> TRUE, val |-> x, pos |-> p]
IsWs(c) == c \in {SP, NL}
IsNumSym(c) == c \in {"0", "1", "2"}

RECURSIVE SkipWs(_, _)
SkipWs(t, i) == IF i <= Len(t) /\ IsWs(t[i]) THEN SkipWs(t, i + 1) ELSE i

\* scans a string body from i (after the opening quote)
RECURSIVE ParseString(_, _, _)
ParseString(t, i, acc) ==
  IF i > Len(t) THEN PFail
  ELSE IF t[i] = QUOTE THEN POk(acc, i + 1)
  ELSE IF t[i] = NL THEN PFail
  ELSE IF t[i] = BSLASH THEN
         IF i + 1 > Len(t) THEN PFail
         ELSE IF t[i + 1] \in {QUOTE, BSLASH}
                THEN ParseString(t, i + 2, Append(acc, t[i + 1]))
         ELSE IF t[i + 1] = "n" THEN ParseString(t, i + 2, Append(acc, NL))
         ELSE PFail
  ELSE ParseString(t, i + 1, Append(acc, t[i]))

\* a dict key is stored as the single symbol it was written from
KeyOf(s) == IF Len(s) = 1 THEN s[1] ELSE "?"

RECURSIVE ParseValue(_, _)
RECURSIVE ParseItems(_, _, _)
RECURSIVE ParsePairs(_, _, _)

\* a string value from the result of scanning its body
StringValue(r) == IF r.ok THEN POk(PStr(r.val), r.pos) ELSE PFail

\* after "[" and white space: the empty list, or the items
ParseList(t, j) ==
  IF j <= Len(t) /\ t[j] = "]" THEN POk(PList(<<>>), j + 1)
  ELSE ParseItems(t, j, <<>>)

\* after "{" and white space: the empty dict, or the pairs
ParseDict(t, j) ==
  IF j <= Len(t) /\ t[j] = "}" THEN POk(PDict(<<>>), j + 1)
  ELSE ParsePairs(t, j, <<>>)

\* the value that starts at the non-blank position i
ParseValueAt(t, i) ==
  IF i > Len(t) THEN PFail
  ELSE CASE t[i] = "null" -> POk(None, i + 1)
         [] IsNumSym(t[i]) -> POk(PNum(<<t[i]>>), i + 1)
         [] t[i] = QUOTE -> StringValue(ParseString(t, i + 1, <<>>))
         [] t[i] = "[" -> ParseList(t, SkipWs(t, i + 1))
         [] t[i] = "{" -> ParseDict(t, SkipWs(t, i + 1))
         [] OTHER -> PFail
ParseValue(t, i0) == ParseValueAt(t, SkipWs(t, i0))

\* after the items acc and white space: "]" ends the list, "," goes on
ItemsSep(t, j, acc) ==
  IF j > Len(t) THEN PFail
  ELSE IF t[j] = "]" THEN POk(PList(acc), j + 1)
  ELSE IF t[j] = "," THEN ParseItems(t, j + 1, acc)
  ELSE PFail
\* r is the result of parsing the next item
ItemsAfter(t, r, acc) ==
  IF ~r.ok THEN PFail ELSE ItemsSep(t, SkipWs(t, r.pos), Append(acc, r.val))
ParseItems(t, i, acc) == ItemsAfter(t, ParseValue(t, i), acc)

\* after the pairs acc and white space: "}" ends the dict, "," goes on
PairsSep(t, j, acc) ==
  IF j > Len(t) THEN PFail
  ELSE IF t[j] = "}" THEN POk(PDict(acc), j + 1)
  ELSE IF t[j] = "," THEN ParsePairs(t, j + 1, acc)
  ELSE PFail
\* r is the result of parsing the value of key
PairAfter(t, r, key, acc) ==
  IF ~r.ok THEN PFail
  ELSE PairsSep(t, SkipWs(t, r.pos), DictSet(acc, key, r.val))
\* c is the position where the colon must be
PairValue(t, c, key, acc) ==
  IF c > Len(t) \/ t[c] # ":" THEN PFail
  ELSE PairAfter(t, ParseValue(t, c + 1), key, acc)
\* ks is the result of scanning the key
PairColon(t, ks, acc) ==
  IF ~ks.ok THEN PFail
  ELSE PairValue(t, SkipWs(t, ks.pos), KeyOf(ks.val), acc)
\* i is the position where the key must start
PairKey(t, i, acc) ==
  IF i > Len(t) \/ t[i] # QUOTE THEN PFail
  ELSE PairColon(t, ParseString(t, i + 1, <<>>), acc)
ParsePairs(t, i0, acc) == PairKey(t, SkipWs(t, i0), acc)

\* json.loads(text): one value, then nothing but white space
WholeText(t, r) == IF r.ok /\ SkipWs(t, r.pos) > Len(t) THEN r ELSE PFail
JsonLoads(t) == WholeText(t, ParseValue(t, 1))

(***************************************************************************)
(* The configs directory                                                   *)
(***************************************************************************)
CfgTypes == {"level", "association", "column_mappings"}
TemplateTypes == {"level", "association"}

\* temp_path and final_path of save_config, config_path of load_config
temp_path(t) == <<"configs", t, "_config.tmp">>
final_path(t) == <<"configs", t, "_config.json">>
config_path(t) == <<"configs", t, "_config.json">>
Paths == {temp_path(t) : t \in CfgTypes} \cup {final_path(t) : t \in CfgTypes}

NoFile == [exists |-> FALSE, data |-> <<>>]
File(text) == [exists |-> TRUE, data |-> text]

Exists(f, p) == f[p].exists
FsWrite(f, p, text) == [f EXCEPT ![p] = File(text)]
FsRemove(f, p) == [f EXCEPT ![p] = NoFile]
FsRename(f, src, dst) == [f EXCEPT ![dst] = f[src], ![src] = NoFile]

VARIABLES
  fs,      \* the files of the configs directory
  ret,     \* the value the last call returned
  op,      \* the last operation and its arguments
  ui,      \* the st.error / st.success messages of the last operation
  sess,    \* per session: where it stands inside save_config / load_config
  DEFAULT_TEMPLATES,  \* the module-level dict of default template rows
  session_state,      \* st.session_state["<type>_template"]
  runs,    \* script runs so far
  samples, \* the files of the source_samples directory
  default_mappings,   \* what get_default_mappings() returns
  adds,    \* mappings added so far
  admin_mode,         \* st.session_state.state["admin_mode"]
  demo_page,          \* st.session_state.demo_page
  widgets, \* the widget values Streamlit keeps between runs
  secrets, \* st.secrets
  run,     \* what the last run of render_foundation_v2 saw and rendered
  state,   \* the keys of st.session_state.state the record detective reads
  detective,          \* the last result of the record detective
  payroll  \* the last call of the payroll frame functions and its result

cfgVars == <<fs, ret, op, ui>>
edVars == <<DEFAULT_TEMPLATES, session_state, runs>>
upVars == <<samples>>
mapVars == <<default_mappings, adds>>
admVars == <<admin_mode, demo_page, widgets, secrets, run>>
detVars == <<state, detective>>
payVars == <<payroll>>
anaVars == <<detVars, payVars>>
extVars == <<upVars, mapVars, admVars, anaVars>>
vars == <<fs, ret, op, ui, sess, DEFAULT_TEMPLATES, session_state, runs,
          samples, default_mappings, adds,
          admin_mode, demo_page, widgets, secrets, run,
          state, detective, payroll>>

Msg(kind, text) == [kind |-> kind, text |-> text, detail |-> <<>>]
MsgWith(kind, text, detail) == [kind |-> kind, text |-> text, detail |-> detail]
Errors(u) == {i \in 1..Len(u) : u[i].kind = "error"}

Op(name, t, d, fault) == [name |-> name, t |-> t, d |-> d, fault |-> fault]

(***************************************************************************)
(* save_config                                                             *)
(***************************************************************************)
\* os.path.exists(temp_path), os.remove(final_path), os.rename
save_config_rename(f1, t) ==
  IF Exists(f1, temp_path(t))
    THEN FsRename(IF Exists(f1, final_path(t))
                    THEN FsRemove(f1, final_path(t)) ELSE f1,
                  temp_path(t), final_path(t))
    ELSE f1

\* The body of the try block, run without interruption.  openFails: the
\* open() of the temp file raises OSError.
save_config_no_rename(f, t, d, openFails) ==
  IF openFails THEN [fs |-> f, err |-> TRUE]
  ELSE [fs |-> FsWrite(f, temp_path(t), JsonDump(d)), err |-> FALSE]

save_config(f, t, d, openFails) ==
  IF openFails THEN [fs |-> f, err |-> TRUE]
  ELSE [fs |-> save_config_rename(FsWrite(f, temp_path(t), JsonDump(d)), t),
        err |-> FALSE]

SaveMsgs(r) == IF r.err THEN <<Msg("error", "Error saving config")>> ELSE <<>>

(***************************************************************************)
(* load_config                                                             *)
(***************************************************************************)
Return(x) == [exc |-> FALSE, val |-> x]
Raise == [exc |-> TRUE, val |-> None]

\* data = json.loads(data) of a str: r2 is its result
load_config_str(r2) ==
  IF ~r2.ok THEN Return(None)
  ELSE IF r2.val.k # "list" THEN Return(None)
  ELSE Return(r2.val)

\* the checks on data = json.load(f): r is its result
load_config_check(t, r) ==
  IF ~r.ok THEN Raise
  ELSE IF t \in {"level", "association"} THEN
         IF r.val.k = "str" THEN load_config_str(JsonLoads(r.val.v))
         ELSE IF r.val.k # "list" THEN Return(None)
         ELSE Return(r.val)
  ELSE Return(r.val)

\* load_config_open without the type checks of 'level' and 'association'
load_config_open_nocheck(f, t, readFails) ==
  IF readFails \/ ~Exists(f, config_path(t)) THEN Raise
  ELSE load_config_check("column_mappings", JsonLoads(f[config_path(t)].data))

\* from `with open(config_path)` on; readFails: open() or read() raises
load_config_open(f, t, readFails) ==
  IF readFails \/ ~Exists(f, config_path(t)) THEN Raise
  ELSE load_config_check(t, JsonLoads(f[config_path(t)].data))

\* the try block
load_config_try(f, t, readFails) ==
  IF ~Exists(f, config_path(t)) THEN Return(None)
  ELSE load_config_open(f, t, readFails)

\* the except clause: report and return None
load_config_except(r) ==
  IF r.exc THEN [raised |-> FALSE, val |-> None, err |-> TRUE]
  ELSE [raised |-> FALSE, val |-> r.val, err |-> FALSE]

load_config(f, t, readFails) == load_config_except(load_config_try(f, t, readFails))

LoadMsgs(r) == IF r.err THEN <<Msg("error", "Error loading config")>> ELSE <<>>

(***************************************************************************)
(* DEFAULT_TEMPLATES and the session's templates                           *)
(***************************************************************************)
\* the literal of config_manager.py:48-62
DefaultTemplatesSource ==
  [t \in TemplateTypes |->
     IF t = "level" THEN
       << Row(<<"effectiveStartDate">>, <<"Start Date">>, <<"Effective start date of the level">>),
          Row(<<"externalCode">>, <<"Code">>, <<"Unique identifier for the level">>),
          Row(<<"name.en_US">>, <<"US English">>, <<"Name in US English">>),
          Row(<<"name.defaultValue">>, <<"Default Value">>, <<"Default name value">>),
          Row(<<"effectiveStatus">>, <<"Status">>, <<"Current status (Active/Inactive)">>),
          Row(<<"headOfUnit">>, <<"Head of Unit">>, <<"Person in charge of this unit">>) >>
     ELSE
       << Row(<<"externalCode">>, <<"Code">>, <<"Unique identifier for the association">>),
          Row(<<"effectiveStartDate">>, <<"Start Date">>, <<"Effective start date">>),
          Row(<<"cust_toLegalEntity.externalCode">>, <<"Business Unit.Company">>, <<"Legal entity reference">>) >>]

\* An element of a session template is a reference to a dict: def = k > 0 is
\* the k-th dict of DEFAULT_TEMPLATES[t] itself (list.copy() copies the list,
\* not the dicts); def = 0 is a dict of its own.
DefRef(k) == [def |-> k, own |-> None]
OwnRow(d) == [def |-> 0, own |-> d]
NoSession == [present |-> FALSE, rows |-> <<>>]

\* the options of the template type radio, and template_type.lower()
TemplateRadio == {"Level", "Association"}
Lower(tt) == IF tt = "Level" THEN "level" ELSE "association"

Deref(D, tt, e) == IF e.def > 0 THEN D[Lower(tt)][e.def] ELSE e.own
\* the list of dicts a session template denotes
Rows(D, S, tt) == [i \in 1..Len(S[tt].rows) |-> Deref(D, tt, S[tt].rows[i])]

EdVarsInit ==
  /\ DEFAULT_TEMPLATES = DefaultTemplatesSource
  /\ session_state = [tt \in TemplateRadio |-> NoSession]
  /\ runs = 0

(***************************************************************************)
(* Source samples, default mappings and the admin gate: initial values     *)
(***************************************************************************)
SourceFiles == {"HRP1000", "HRP1001"}
NoSample == [exists |-> FALSE, columns |-> {}]
Sample(cols) == [exists |-> TRUE, columns |-> cols]

UpVarsInit == samples = [sf \in SourceFiles |-> NoSample]

MapVarsInit ==
  /\ default_mappings = <<>>
  /\ adds = 0

\* the 'state' dict of foundation_app.py:144-157 has admin_mode False
NoRun == [kind |-> "none", admin_toggle |-> FALSE, pw_shown |-> FALSE,
          entered_pw |-> "", panel_options |-> <<>>, panel |-> "",
          admin_panel |-> FALSE]
AdmVarsInit ==
  /\ admin_mode = FALSE
  /\ demo_page = "unknown"
  /\ widgets = [toggle_key |-> "unknown", toggle |-> FALSE, pw |-> "",
                panel |-> "Hierarchy"]
  /\ secrets = [available |-> FALSE, admin_password |-> ""]
  /\ run = NoRun

\* no data loaded, nothing analysed, no frame function called
NoState == [source_hrp1000 |-> <<>>, source_hrp1001 |-> <<>>,
            level_files |-> <<>>, association_files |-> <<>>,
            hierarchy_structure |-> <<>>]
DetVarsInit ==
  /\ state = NoState
  /\ detective = [kind |-> "none"]
PayVarsInit == payroll = [call |-> "none"]
AnaVarsInit == DetVarsInit /\ PayVarsInit

(***************************************************************************)
(* save_config and load_config step by step, in concurrent sessions        *)
(***************************************************************************)
NumSessions == 2
Sessions == 1..NumSessions

Idle == [pc |-> "idle", t |-> "level", d |-> None, res |-> None, may |-> {}]
SessInit == [s \in Sessions |-> Idle]

(***************************************************************************)
(* Calls of save_config and load_config, one after the other               *)
(***************************************************************************)
\* rows and a mapping whose strings need escaping, hold separators or are empty
SampleRows ==
  << Row(<<"a", QUOTE, BSLASH, "n">>, <<SP, ",", NL>>, <<>>),
     Row(<<"a">>, <<"b">>, <<"d d">>),
     Row(<<>>, <<"b">>, <<BSLASH, BSLASH>>),
     Row(<<"c">>, <<QUOTE>>, <<"1">>) >>

\* lists the callers pass to save_config: the first n sample rows
MaxSaveLen == 2
SaveData == {PList(SubSeq(SampleRows, 1, n)) : n \in 0..MaxSaveLen}

\* what a config file may hold when the program starts
InitTexts ==
  { JsonDump(PList(<<Row(<<"a">>, <<"b">>, <<>>)>>)),
    JsonDump(PStr(<<"[", "1", ",", SP, QUOTE, "a", QUOTE, "]">>)),
    JsonDump(PStr(<<"{", "}">>)),
    JsonDump(PStr(<<"a">>)),
    JsonDump(PDict(<< <<"a", PNum(<<"1">>)>> >>)),
    JsonDump(None),
    <<"[", NL, SP, SP, "{">>,
    <<>> }
InitFiles == {NoFile} \cup {File(x) : x \in InitTexts}

CfgInit ==
  /\ \E t \in CfgTypes, f \in InitFiles :
       fs = [p \in Paths |-> IF p = final_path(t) THEN f ELSE NoFile]
  /\ ret = [raised |-> FALSE, val |-> None, err |-> FALSE]
  /\ op = Op("init", "level", None, FALSE)
  /\ ui = <<>>
  /\ sess = SessInit
  /\ EdVarsInit
  /\ UpVarsInit
  /\ MapVarsInit
  /\ AdmVarsInit
  /\ AnaVarsInit

SaveConfig(t, d, openFails) ==
  \E r \in {save_config(fs, t, d, openFails)} :
  /\ fs' = r.fs
  /\ ui' = SaveMsgs(r)
  /\ ret' = [raised |-> FALSE, val |-> None, err |-> r.err]
  /\ op' = Op("save", t, d, openFails)
  /\ UNCHANGED <<sess, edVars, extVars>>

LoadConfig(t, readFails) ==
  \E r \in {load_config(fs, t, readFails)} :
  /\ ret' = r
  /\ ui' = LoadMsgs(r)
  /\ op' = Op("load", t, None, readFails)
  /\ UNCHANGED <<fs, sess, edVars, extVars>>

CfgNext ==
  \/ \E t \in CfgTypes, d \in SaveData, b \in BOOLEAN : SaveConfig(t, d, b)
  \/ \E t \in CfgTypes, b \in BOOLEAN : LoadConfig(t, b)

SpecCfg == CfgInit /\ [][CfgNext]_vars

\* C2: load_config never raises; it returns None for a missing, unreadable or
\* unparsable file and, for 'level' and 'association', whenever the stored
\* value is neither a list nor a string that decodes to a list, so that for
\* these two types the result is a list or None.
StoredValue(t) == JsonLoads(fs[config_path(t)].data)
DecodesToList(x) ==
  \/ x.k = "list"
  \/ x.k = "str" /\ JsonLoads(x.v).ok /\ JsonLoads(x.v).val.k = "list"
LoadNeverRaises ==
  op.name = "load" =>
    /\ ~ret.raised
    /\ ~Exists(fs, config_path(op.t)) => ret.val = None
    /\ op.fault => ret.val = None
    /\ ~StoredValue(op.t).ok => ret.val = None
    /\ (op.t \in {"level", "association"} /\ StoredValue(op.t).ok
          /\ ~DecodesToList(StoredValue(op.t).val)) => ret.val = None
    /\ op.t \in {"level", "association"} => ret.val.k \in {"list", "none"}
LoadNeverRaisesWitness ==
  /\ op.name = "load" /\ op.t = "level" /\ ~op.fault
  /\ Exists(fs, config_path("level"))
  /\ StoredValue("level").ok /\ StoredValue("level").val.k = "dict"
  /\ ret.val = None

\* C3: after save_config(t, d) completed without error, load_config(t)
\* returns a value equal to d.
RoundTrip ==
  (op.name = "save" /\ Errors(ui) = {}) =>
    load_config(fs, op.t, FALSE).val = op.d
RoundTripWitness ==
  /\ op.name = "save" /\ Errors(ui) = {} /\ op.t = "column_mappings"
  /\ Len(op.d.v) = 2
  /\ load_config(fs, op.t, FALSE).val = op.d

\* values a save may carry and the config a type starts with
FsData == {PList(SubSeq(SampleRows, 1, n)) : n \in 1..MaxSaveLen}
FsTypes == {"level", "column_mappings"}

FsInit ==
  /\ fs = [p \in Paths |->
             IF p \in {final_path(t) : t \in FsTypes}
               THEN File(JsonDump(PList(<<SampleRows[MaxSaveLen + 1]>>)))
               ELSE NoFile]
  /\ ret = [raised |-> FALSE, val |-> None, err |-> FALSE]
  /\ op = Op("init", "level", None, FALSE)
  /\ ui = <<>>
  /\ sess = SessInit
  /\ EdVarsInit
  /\ UpVarsInit
  /\ MapVarsInit
  /\ AdmVarsInit
  /\ AnaVarsInit

Saving(t) == {s \in Sessions : sess[s].t = t /\ sess[s].pc \in
                {"s_open", "s_dump", "s_close", "s_exists_temp",
                 "s_exists_final", "s_remove", "s_rename"}}
Loading(t) == {s \in Sessions : sess[s].t = t
                 /\ sess[s].pc \in {"l_exists", "l_open"}}

\* save_config is entered; one save of a type at a time.  Every load of the
\* type that is under way may from now on see d.
SaveBegin(s, t, d) ==
  /\ sess[s].pc \in {"idle", "saved", "loaded"}
  /\ Saving(t) = {}
  /\ sess' = [q \in Sessions |->
                IF q = s THEN [Idle EXCEPT !.pc = "s_open", !.t = t, !.d = d]
                ELSE IF q \in Loading(t)
                  THEN [sess[q] EXCEPT !.may = @ \cup {d}]
                ELSE sess[q]]
  /\ UNCHANGED <<fs, ret, op, ui, edVars, extVars>>

\* open(temp_path, "w"): creates or truncates
SaveOpen(s) ==
  /\ sess[s].pc = "s_open"
  /\ fs' = FsWrite(fs, temp_path(sess[s].t), <<>>)
  /\ sess' = [sess EXCEPT ![s].pc = "s_dump"]
  /\ UNCHANGED <<ret, op, ui, edVars, extVars>>

\* json.dump: part of the text reaches the file before the rest
DumpCuts(text) == {1, Len(text) \div 2, Len(text) - 1}
SaveDump(s) ==
  /\ sess[s].pc = "s_dump"
  /\ \E n \in DumpCuts(JsonDump(sess[s].d)) :
       fs' = FsWrite(fs, temp_path(sess[s].t), SubSeq(JsonDump(sess[s].d), 1, n))
  /\ sess' = [sess EXCEPT ![s].pc = "s_close"]
  /\ UNCHANGED <<ret, op, ui, edVars, extVars>>

\* leaving the with block: the whole text is in the temp file
SaveClose(s) ==
  /\ sess[s].pc \in {"s_dump", "s_close"}
  /\ fs' = FsWrite(fs, temp_path(sess[s].t), JsonDump(sess[s].d))
  /\ sess' = [sess EXCEPT ![s].pc = "s_exists_temp"]
  /\ UNCHANGED <<ret, op, ui, edVars, extVars>>

\* if os.path.exists(temp_path)
SaveExistsTemp(s) ==
  /\ sess[s].pc = "s_exists_temp"
  /\ sess' = [sess EXCEPT ![s].pc =
                IF Exists(fs, temp_path(sess[s].t)) THEN "s_exists_final" ELSE "saved"]
  /\ UNCHANGED <<fs, ret, op, ui, edVars, extVars>>

\* if os.path.exists(final_path)
SaveExistsFinal(s) ==
  /\ sess[s].pc = "s_exists_final"
  /\ sess' = [sess EXCEPT ![s].pc =
                IF Exists(fs, final_path(sess[s].t)) THEN "s_remove" ELSE "s_rename"]
  /\ UNCHANGED <<fs, ret, op, ui, edVars, extVars>>

\* os.remove(final_path)
SaveRemove(s) ==
  /\ sess[s].pc = "s_remove"
  /\ fs' = FsRemove(fs, final_path(sess[s].t))
  /\ sess' = [sess EXCEPT ![s].pc = "s_rename"]
  /\ UNCHANGED <<ret, op, ui, edVars, extVars>>

\* os.rename(temp_path, final_path)
SaveRename(s) ==
  /\ sess[s].pc = "s_rename"
  /\ fs' = FsRename(fs, temp_path(sess[s].t), final_path(sess[s].t))
  /\ sess' = [sess EXCEPT ![s].pc = "saved"]
  /\ UNCHANGED <<ret, op, ui, edVars, extVars>>

\* load_config is entered: it may return the config stored now and the data
\* of a save of the type that is under way
LoadBegin(s, t) ==
  /\ sess[s].pc \in {"idle", "saved", "loaded"}
  /\ sess' = [sess EXCEPT ![s] =
                [Idle EXCEPT !.pc = "l_exists", !.t = t,
                             !.may = {load_config(fs, t, FALSE).val}
                                       \cup {sess[w].d : w \in Saving(t)}]]
  /\ UNCHANGED <<fs, ret, op, ui, edVars, extVars>>

\* if not os.path.exists(config_path): return None
LoadExists(s) ==
  /\ sess[s].pc = "l_exists"
  /\ sess' = [sess EXCEPT ![s] =
                IF Exists(fs, config_path(sess[s].t))
                  THEN [@ EXCEPT !.pc = "l_open"]
                  ELSE [@ EXCEPT !.pc = "loaded", !.res = None]]
  /\ UNCHANGED <<fs, ret, op, ui, edVars, extVars>>

\* open, json.load and the checks on the value; the except clause
LoadOpen(s) ==
  /\ sess[s].pc = "l_open"
  /\ sess' = [sess EXCEPT ![s].pc = "loaded",
                          ![s].res = load_config_except(
                                       load_config_open(fs, sess[s].t, FALSE)).val]
  /\ UNCHANGED <<fs, ret, op, ui, edVars, extVars>>

FsNext ==
  \/ \E s \in Sessions, t \in FsTypes, d \in FsData : SaveBegin(s, t, d)
  \/ \E s \in Sessions : SaveOpen(s)
  \/ \E s \in Sessions : SaveDump(s)
  \/ \E s \in Sessions : SaveClose(s)
  \/ \E s \in Sessions : SaveExistsTemp(s)
  \/ \E s \in Sessions : SaveExistsFinal(s)
  \/ \E s \in Sessions : SaveRemove(s)
  \/ \E s \in Sessions : SaveRename(s)
  \/ \E s \in Sessions, t \in FsTypes : LoadBegin(s, t)
  \/ \E s \in Sessions : LoadExists(s)
  \/ \E s \in Sessions : LoadOpen(s)

SpecFS == FsInit /\ [][FsNext]_vars

\* C1: a load_config(t) that runs while save_config(t, new) replaces a stored
\* config old returns old or new: never None, never a part of the text.
AtomicSave ==
  \A s \in Sessions : sess[s].pc = "loaded" => sess[s].res \in sess[s].may

(***************************************************************************)
(* convert_text_to_template and convert_template_to_text                   *)
(***************************************************************************)
\* str.strip()
RECURSIVE LStrip(_)
LStrip(s) == IF s # <<>> /\ IsWs(Head(s)) THEN LStrip(Tail(s)) ELSE s
RECURSIVE RStrip(_)
RStrip(s) ==
  IF s # <<>> /\ IsWs(s[Len(s)]) THEN RStrip(SubSeq(s, 1, Len(s) - 1)) ELSE s
Strip(s) == RStrip(LStrip(s))

\* str.split(sep) for a one-character separator
RECURSIVE SplitFrom(_, _, _, _)
SplitFrom(s, sep, i, cur) ==
  IF i > Len(s) THEN <<cur>>
  ELSE IF s[i] = sep THEN <<cur>> \o SplitFrom(s, sep, i + 1, <<>>)
  ELSE SplitFrom(s, sep, i + 1, Append(cur, s[i]))
Split(s, sep) == SplitFrom(s, sep, 1, <<>>)

\* [x.strip() for x in xs if x.strip()]
RECURSIVE StripNonEmpty(_)
StripNonEmpty(xs) ==
  IF xs = <<>> THEN <<>>
  ELSE (IF Strip(Head(xs)) # <<>> THEN <<Strip(Head(xs))>> ELSE <<>>)
         \o StripNonEmpty(Tail(xs))

RECURSIVE TemplateOfLines(_)
TemplateOfLines(lines) ==
  IF lines = <<>> THEN <<>>
  ELSE LET parts == StripNonEmpty(Split(Head(lines), ","))
       IN (IF Len(parts) >= 2
             THEN <<Row(parts[1], parts[2],
                        IF Len(parts) > 2 THEN parts[3] ELSE <<>>)>>
             ELSE <<>>)
            \o TemplateOfLines(Tail(lines))

convert_text_to_template(text_input) ==
  TemplateOfLines(StripNonEmpty(Split(text_input, NL)))

RECURSIVE JoinLines(_)
JoinLines(ls) ==
  IF ls = <<>> THEN <<>>
  ELSE IF Len(ls) = 1 THEN ls[1]
  ELSE ls[1] \o <<NL>> \o JoinLines(Tail(ls))

convert_template_to_text(template) ==
  JoinLines([i \in 1..Len(template) |->
               DictGet(template[i].v, "target_column1", PStr(<<>>)).v \o <<",">>
                 \o DictGet(template[i].v, "target_column2", PStr(<<>>)).v \o <<",">>
                 \o DictGet(template[i].v, "description", PStr(<<>>)).v])

(***************************************************************************)
(* render_template_editor: one action per script run, named after the      *)
(* widget the user touched.  A text_input returns the value it was given   *)
(* unless the user edits that cell in the run.                             *)
(***************************************************************************)
MaxRuns == 2

\* current_template = load_config(...) or DEFAULT_TEMPLATES[...], and the
\* copy of that list
SessionRows(D, tt, loaded) ==
  IF Truthy(loaded)
    THEN [i \in 1..Len(loaded.v) |-> OwnRow(loaded.v[i])]
    ELSE [i \in 1..Len(D[Lower(tt)]) |-> DefRef(i)]

\* if the key is not in st.session_state: store the copy
EnsureSession(f, D, S, tt) ==
  IF S[tt].present THEN S
  ELSE [S EXCEPT ![tt] =
          [present |-> TRUE,
           rows |-> SessionRows(D, tt, load_config(f, Lower(tt), FALSE).val)]]

\* row[field] = value on the i-th dict of the session template
SetCell(D, S, tt, i, field, value) ==
  LET e == S[tt].rows[i]
      d == PDict(DictSet(Deref(D, tt, e).v, field, PStr(value)))
  IN IF e.def > 0
       THEN [D |-> [D EXCEPT ![Lower(tt)][e.def] = d], S |-> S]
       ELSE [D |-> D, S |-> [S EXCEPT ![tt].rows[i] = OwnRow(d)]]

Swap(xs, i, j) == [xs EXCEPT ![i] = xs[j], ![j] = xs[i]]
DelAt(xs, i) == SubSeq(xs, 1, i - 1) \o SubSeq(xs, i + 1, Len(xs))

EdFrame == UNCHANGED <<ret, sess, extVars>>
\* the runs of a behaviour are counted up to MaxRuns
CanRun == runs < MaxRuns
Ran(name, tt) ==
  /\ CanRun
  /\ runs' = runs + 1
  /\ op' = Op(name, tt, None, FALSE)
  /\ EdFrame

\* the session template of the run: EnsureSession, then the rows it names
Session(tt) == EnsureSession(fs, DEFAULT_TEMPLATES, session_state, tt)

\* a run in which no widget of the editor was touched
Render(tt) ==
  /\ Ran("render", tt)
  /\ session_state' = Session(tt)
  /\ ui' = <<>>
  /\ UNCHANGED <<fs, DEFAULT_TEMPLATES>>

\* "Reset to Default Templates"
ResetToDefault(tt) ==
  /\ CanRun
  /\ \E S1 \in {Session(tt)} :
     \E S2 \in {[S1 EXCEPT ![tt].rows =
                   [i \in 1..Len(DEFAULT_TEMPLATES[Lower(tt)]) |-> DefRef(i)]]} :
     \E template \in {Rows(DEFAULT_TEMPLATES, S2, tt)} :
     \E r \in {save_config(fs, Lower(tt), PList(template), FALSE)} :
        /\ Ran("reset", tt)
        /\ session_state' = S2
        /\ fs' = r.fs
        /\ ui' = SaveMsgs(r) \o <<Msg("success", "template reset to default values!")>>
        /\ UNCHANGED DEFAULT_TEMPLATES

\* Table Editor: the user edits one cell
CellEdit(tt, i, field, value) ==
  /\ CanRun
  /\ \E S1 \in {Session(tt)} :
        /\ i \in 1..Len(S1[tt].rows)
        /\ \E r \in {SetCell(DEFAULT_TEMPLATES, S1, tt, i, field, value)} :
             /\ DEFAULT_TEMPLATES' = r.D
             /\ session_state' = r.S
        /\ Ran("cell", tt)
        /\ ui' = <<>>
        /\ UNCHANGED fs

\* Table Editor: the up button of row i (disabled for the first row)
MoveUp(tt, i) ==
  /\ CanRun
  /\ \E S1 \in {Session(tt)} :
        /\ i \in 2..Len(S1[tt].rows)
        /\ Ran("up", tt)
        /\ session_state' = [S1 EXCEPT ![tt].rows = Swap(@, i, i - 1)]
        /\ ui' = <<>>
        /\ UNCHANGED <<fs, DEFAULT_TEMPLATES>>

\* Table Editor: the down button of row i (disabled for the last row)
MoveDown(tt, i) ==
  /\ CanRun
  /\ \E S1 \in {Session(tt)} :
        /\ i \in 1..(Len(S1[tt].rows) - 1)
        /\ Ran("down", tt)
        /\ session_state' = [S1 EXCEPT ![tt].rows = Swap(@, i, i + 1)]
        /\ ui' = <<>>
        /\ UNCHANGED <<fs, DEFAULT_TEMPLATES>>

\* Table Editor: the delete button of row i
DeleteRow(tt, i) ==
  /\ CanRun
  /\ \E S1 \in {Session(tt)} :
        /\ i \in 1..Len(S1[tt].rows)
        /\ Ran("delete", tt)
        /\ session_state' = [S1 EXCEPT ![tt].rows = DelAt(@, i)]
        /\ ui' = <<Msg("success", "Row deleted!")>>
        /\ UNCHANGED <<fs, DEFAULT_TEMPLATES>>

\* "Add Row" that also wrote the config
AddRowSaving(tt, new_col1, new_col2, new_desc) ==
  /\ CanRun
  /\ \E S1 \in {Session(tt)} :
     \E valid \in {new_col1 # <<>> /\ new_col2 # <<>>} :
     \E S2 \in {IF valid
                  THEN [S1 EXCEPT ![tt].rows =
                          Append(@, OwnRow(Row(new_col1, new_col2, new_desc)))]
                  ELSE S1} :
     \E template \in {Rows(DEFAULT_TEMPLATES, S2, tt)} :
        /\ Ran("add", tt)
        /\ session_state' = S2
        /\ ui' = IF valid THEN <<Msg("success", "Row added!")>> ELSE <<>>
        /\ fs' = save_config(fs, Lower(tt), PList(template), FALSE).fs
        /\ UNCHANGED DEFAULT_TEMPLATES

\* Table Editor: "Add Row" with the three inputs of the expander
AddRow(tt, new_col1, new_col2, new_desc) ==
  /\ CanRun
  /\ \E S1 \in {Session(tt)} :
     \E valid \in {new_col1 # <<>> /\ new_col2 # <<>>} :
        /\ Ran("add", tt)
        /\ session_state' =
             IF valid
               THEN [S1 EXCEPT ![tt].rows =
                       Append(@, OwnRow(Row(new_col1, new_col2, new_desc)))]
               ELSE S1
        /\ ui' = IF valid THEN <<Msg("success", "Row added!")>> ELSE <<>>
        /\ UNCHANGED <<fs, DEFAULT_TEMPLATES>>

\* Text Input: "Apply Text Changes" with the content of the text area
ApplyText(tt, text_content) ==
  /\ CanRun
  /\ \E S1 \in {Session(tt)} :
     \E new_template \in {convert_text_to_template(text_content)} :
        /\ Ran("apply", tt)
        /\ session_state' = [S1 EXCEPT ![tt].rows =
                               [i \in 1..Len(new_template) |-> OwnRow(new_template[i])]]
        /\ ui' = <<Msg("success", "Template updated from text input!")>>
        /\ UNCHANGED <<fs, DEFAULT_TEMPLATES>>

\* the checks of "Save Template": the errors of rows i..
RECURSIVE RowErrorsFrom(_, _)
RowErrorsFrom(template, i) ==
  IF i > Len(template) THEN <<>>
  ELSE (IF ~Truthy(DictGet(template[i].v, "target_column1", None))
          THEN <<<<i, "Missing System Column Name">>>> ELSE <<>>)
       \o (IF ~Truthy(DictGet(template[i].v, "target_column2", None))
             THEN <<<<i, "Missing Display Name">>>> ELSE <<>>)
       \o RowErrorsFrom(template, i + 1)
validation_errors(template) == RowErrorsFrom(template, 1)

\* "Save Template"
SaveTemplate(tt) ==
  /\ CanRun
  /\ \E S1 \in {Session(tt)} :
     \E template \in {Rows(DEFAULT_TEMPLATES, S1, tt)} :
     \E errs \in {validation_errors(template)} :
        /\ Ran("save", tt)
        /\ session_state' = S1
        /\ IF errs # <<>>
             THEN /\ ui' = <<MsgWith("error", "Validation errors:", errs)>>
                  /\ UNCHANGED fs
             ELSE \E r \in {save_config(fs, Lower(tt), PList(template), FALSE)} :
                    /\ fs' = r.fs
                    /\ ui' = SaveMsgs(r) \o <<Msg("success", "template saved successfully!")>>
        /\ UNCHANGED DEFAULT_TEMPLATES

\* a new browser session: st.session_state starts empty
NewSession ==
  /\ CanRun
  /\ \E tt \in TemplateRadio : session_state[tt].present
  /\ runs' = runs + 1
  /\ session_state' = [tt \in TemplateRadio |-> NoSession]
  /\ op' = Op("session", "Level", None, FALSE)
  /\ ui' = <<>>
  /\ UNCHANGED <<fs, DEFAULT_TEMPLATES, ret, sess, extVars>>

\* what the user may type into a cell and into the text area
CellValues == {<<>>, <<"x">>}
CellFields == {"target_column1", "target_column2", "description"}
MaxTouchedRow == 2
TextInputs ==
  { <<>>,
    <<"x", ",", SP, NL, SP, "y", ",", ",", "z", SP, ",", "w", NL, "v">> }

\* value=convert_template_to_text(...): the text area as first shown
TextAreaValue(tt) ==
  convert_template_to_text(Rows(DEFAULT_TEMPLATES, Session(tt), tt))

EdNext ==
  \/ \E tt \in TemplateRadio : Render(tt)
  \/ \E tt \in TemplateRadio : ResetToDefault(tt)
  \/ \E tt \in TemplateRadio, i \in 1..MaxTouchedRow, c \in CellFields, v \in CellValues :
       CellEdit(tt, i, c, v)
  \/ \E tt \in TemplateRadio, i \in 1..MaxTouchedRow : MoveUp(tt, i)
  \/ \E tt \in TemplateRadio, i \in 1..MaxTouchedRow : MoveDown(tt, i)
  \/ \E tt \in TemplateRadio, i \in 1..MaxTouchedRow : DeleteRow(tt, i)
  \/ \E tt \in TemplateRadio, a \in CellValues, b \in CellValues :
       AddRow(tt, a, b, <<>>)
  \/ \E tt \in TemplateRadio :
       /\ CanRun
       /\ \E shown \in {TextAreaValue(tt)} :
            \E x \in TextInputs \cup {shown} : ApplyText(tt, x)
  \/ \E tt \in TemplateRadio : SaveTemplate(tt)
  \/ NewSession

\* no persisted template, or a level template whose rows have names
EdInitFiles == {NoFile, File(JsonDump(PList(<<Row(<<"p">>, <<"q">>, <<>>)>>)))}
EdInit ==
  /\ \E f \in EdInitFiles :
       fs = [p \in Paths |-> IF p = final_path("level") THEN f ELSE NoFile]
  /\ ret = [raised |-> FALSE, val |-> None, err |-> FALSE]
  /\ op = Op("init", "level", None, FALSE)
  /\ ui = <<>>
  /\ sess = SessInit
  /\ EdVarsInit
  /\ UpVarsInit
  /\ MapVarsInit
  /\ AdmVarsInit
  /\ AnaVarsInit

SpecEd == EdInit /\ [][EdNext]_vars

Persisted(t) == load_config(fs, t, FALSE).val
HasNames(row) ==
  /\ Truthy(DictGet(row.v, "target_column1", None))
  /\ Truthy(DictGet(row.v, "target_column2", None))

\* C4: whatever the editor operations, no persisted 'level' or 'association'
\* template holds a row whose target_column1 or target_column2 is empty.
NoEmptyNamePersisted ==
  \A t \in TemplateTypes :
    Persisted(t).k = "list" =>
      \A i \in 1..Len(Persisted(t).v) : HasNames(Persisted(t).v[i])

\* C5: after "Reset to Default Templates" the session template and the
\* persisted config of the type are the default rows as the source writes them.
ResetRestoresDefaults ==
  op.name = "reset" =>
    /\ Rows(DEFAULT_TEMPLATES, session_state, op.t) = DefaultTemplatesSource[Lower(op.t)]
    /\ Persisted(Lower(op.t)) = PList(DefaultTemplatesSource[Lower(op.t)])

\* C6: cell edits, moves, deletes, added rows and applied text leave the
\* persisted configs as they are, and so does a Save Template that reports
\* validation errors; only a valid Save Template and a reset write them.
SessionOnlyOps == {"render", "cell", "up", "down", "delete", "add", "apply", "session"}
required_columns(source_file) ==
  CASE source_file = "HRP1000" -> {"Object ID", "Name", "Start date"}
    [] source_file = "HRP1001" -> {"Source ID", "Target object ID", "Start date"}
    [] OTHER -> {}

\* (is_valid, message); the message names the missing columns
validate_sample_columns(source_file, columns) ==
  LET missing_cols == required_columns(source_file) \ columns
  IN IF missing_cols # {}
       THEN [is_valid |-> FALSE,
             message |-> [text |-> "Missing required columns:", cols |-> missing_cols]]
       ELSE [is_valid |-> TRUE,
             message |-> [text |-> "All required columns present", cols |-> {}]]

\* An uploaded file: its name's extension, whether pandas can read it, and
\* the columns of the frame pandas makes of it.
Upload(ext, readable, cols) == [ext |-> ext, readable |-> readable, columns |-> cols]

UploadError(message) ==
  [kind |-> "error", text |-> message.text, detail |-> message.cols]

\* process_uploaded_file without the return after st.error(message)
process_uploaded_file_no_return(smp, uploaded_file, source_file_type) ==
  IF ~uploaded_file.readable
    THEN [samples |-> smp, ui |-> <<Msg("error", "Error processing file")>>]
  ELSE LET v == validate_sample_columns(source_file_type, uploaded_file.columns)
       IN [samples |-> [smp EXCEPT ![source_file_type] = Sample(uploaded_file.columns)],
           ui |-> (IF v.is_valid THEN <<>> ELSE <<UploadError(v.message)>>)
                    \o <<Msg("success", "file saved successfully!")>>]

\* returns the samples directory and the messages shown
process_uploaded_file(smp, uploaded_file, source_file_type) ==
  IF ~uploaded_file.readable
    THEN [samples |-> smp, ui |-> <<Msg("error", "Error processing file")>>]
  ELSE LET v == validate_sample_columns(source_file_type, uploaded_file.columns)
       IN IF ~v.is_valid
            THEN [samples |-> smp, ui |-> <<UploadError(v.message)>>]
            ELSE [samples |-> [smp EXCEPT ![source_file_type] =
                                 Sample(uploaded_file.columns)],
                  ui |-> <<Msg("success", "file saved successfully!")>>]

\* tab 1 of show_admin_panel: a file is uploaded for the selected type
ProcessUpload(source_file_type, uploaded_file) ==
  \E r \in {process_uploaded_file(samples, uploaded_file, source_file_type)} :
  /\ samples' = r.samples
  /\ ui' = r.ui
  /\ op' = [name |-> "upload", t |-> source_file_type, d |-> uploaded_file,
            fault |-> ~uploaded_file.readable]
  /\ UNCHANGED <<fs, ret, sess, edVars, mapVars, admVars, anaVars>>

\* the column sets of the files a user uploads
UploadColumns ==
  { {},
    {"Object ID", "Name", "Start date"},
    {"Object ID", "Name", "Description", "Start date", "Manager ID"},
    {"Object ID", "Name"},
    {"Source ID", "Target object ID", "Start date"},
    {"Source ID", "Target object ID", "Parent ID", "Start date", "Name"},
    {"Source ID", "Start date"},
    {"Object ID", "Name", "Source ID", "Target object ID", "Start date"} }
Uploads ==
  {Upload(e, r, c) : e \in {".xlsx", ".csv"}, r \in BOOLEAN, c \in UploadColumns}

BaseInit ==
  /\ fs = [p \in Paths |-> NoFile]
  /\ ret = [raised |-> FALSE, val |-> None, err |-> FALSE]
  /\ op = Op("init", "level", None, FALSE)
  /\ ui = <<>>
  /\ sess = SessInit
  /\ EdVarsInit
  /\ UpVarsInit
  /\ MapVarsInit
  /\ AdmVarsInit
  /\ AnaVarsInit

UpInit == BaseInit

UpNext ==
  \E sf \in SourceFiles, u \in Uploads : ProcessUpload(sf, u)

SpecUp == UpInit /\ [][UpNext]_vars

\* C7: a sample is stored only if it has the required columns of its type;
\* an upload that misses one reports the missing columns and leaves the
\* stored samples as they are; every stored sample has its required columns.
StoredSamplesValid ==
  \A sf \in SourceFiles :
    samples[sf].exists => required_columns(sf) \subseteq samples[sf].columns
UploadStep ==
  op'.name = "upload" =>
    LET missing == required_columns(op'.t) \ op'.d.columns IN
    IF op'.fault THEN samples' = samples
    ELSE IF missing # {}
      THEN /\ samples' = samples
           /\ Len(ui') = 1 /\ ui'[1].kind = "error" /\ ui'[1].detail = missing
      ELSE samples' = [samples EXCEPT ![op'.t] = Sample(op'.d.columns)]
UploadStoresOnlyValid == [](StoredSamplesValid) /\ [][UploadStep]_vars
UploadStoresOnlyValidWitness ==
  /\ op.name = "upload" /\ ~op.fault /\ op.t = "HRP1001"
  /\ required_columns("HRP1001") \ op.d.columns = {"Target object ID"}
  /\ samples["HRP1001"].exists
  /\ samples["HRP1001"].columns # op.d.columns
  /\ samples["HRP1000"].exists

(***************************************************************************)
(* render_column_mapping_interface: "Add Mapping"                          *)
(***************************************************************************)
TRANSFORMATION_LIBRARY ==
  [tr \in {"None", "UPPERCASE", "lowercase", "Title Case", "Trim Whitespace",
           "Concatenate", "Extract First Word", "Date Format (YYYY-MM-DD)",
           "Lookup Value", "Custom Python"} |->
     CASE tr = "None" -> <<"value">>
       [] tr = "UPPERCASE" -> <<"str(value).upper()">>
       [] tr = "lowercase" -> <<"str(value).lower()">>
       [] tr = "Title Case" -> <<"str(value).title()">>
       [] tr = "Trim Whitespace" -> <<"str(value).strip()">>
       [] tr = "Concatenate" -> <<"str(value1) + str(value2)">>
       [] tr = "Extract First Word" -> <<"str(value).split()[0]">>
       [] tr = "Date Format (YYYY-MM-DD)" ->
            <<"pd.to_datetime(value).strftime('%Y-%m-%d')">>
       [] tr = "Lookup Value" ->
            <<"picklist_lookup(value, picklist_name, picklist_column)">>
       [] tr = "Custom Python" -> <<"Enter Python expression using 'value'">>]

\* the columns of the stored sample, or the fallback defaults
get_source_columns(smp, source_file) ==
  IF source_file \in DOMAIN smp /\ smp[source_file].exists
    THEN smp[source_file].columns
  ELSE IF source_file = "HRP1000"
    THEN {"Object ID", "Name", "Description", "Start date", "Manager ID"}
  ELSE IF source_file = "HRP1001"
    THEN {"Source ID", "Target object ID", "Parent ID", "Start date"}
  ELSE {}

\* str.split(sep) for the separator " | "
BarSep == <<SP, "|", SP>>
RECURSIVE SplitBarFrom(_, _, _)
SplitBarFrom(s, i, cur) ==
  IF i > Len(s) THEN <<cur>>
  ELSE IF i + 2 <= Len(s) /\ SubSeq(s, i, i + 2) = BarSep
    THEN <<cur>> \o SplitBarFrom(s, i + 3, <<>>)
  ELSE SplitBarFrom(s, i + 1, Append(cur, s[i]))
SplitBar(s) == SplitBarFrom(s, 1, <<>>)

\* f"{col['target_column1']} | {col['target_column2']}" for the rows of a template
OptionsOf(template) ==
  {DictGet(template[i].v, "target_column1", PStr(<<>>)).v \o BarSep
     \o DictGet(template[i].v, "target_column2", PStr(<<>>)).v :
   i \in 1..Len(template)}

\* x or y
Or(x, y) == IF Truthy(x) THEN x ELSE y

\* current_template = load_config(t) or DEFAULT_TEMPLATES[t]
TemplateFor(f, D, t) == Or(load_config(f, t, FALSE).val, PList(D[t])).v

\* the options of the "Target Column*" selectbox
target_options(f, D, applies_to) ==
  (IF applies_to \in {"Level", "Both"}
     THEN OptionsOf(TemplateFor(f, D, "level")) ELSE {})
  \cup (IF applies_to \in {"Association", "Both"}
          THEN OptionsOf(TemplateFor(f, D, "association")) ELSE {})

\* the dict literal new_mapping, with the two keys set after it
new_mapping(in) ==
  LET base ==
        << <<"target_column1", PStr(in.target_col1)>>,
           <<"target_column2", PStr(in.target_col2)>>,
           <<"source_file", PStr(<<in.source_file>>)>>,
           <<"source_column", PStr(in.source_col)>>,
           <<"transformation", PStr(<<in.trans_type>>)>>,
           <<"transformation_code", PStr(TRANSFORMATION_LIBRARY[in.trans_type])>>,
           <<"default_value", PStr(in.default_val)>>,
           <<"picklist_source", PStr(in.picklist_file)>>,
           <<"picklist_column",
             PStr(IF in.trans_type = "Lookup Value" THEN in.picklist_col ELSE <<>>)>>,
           <<"applies_to", PStr(<<in.applies_to>>)>> >>
  IN PDict(IF in.trans_type = "Concatenate"
             THEN DictSet(base, "secondary_column", PStr(in.second_col))
           ELSE IF in.trans_type = "Custom Python"
             THEN DictSet(base, "transformation_code", PStr(in.custom_code))
           ELSE base)

\* current_mappings = load_config("column_mappings") or get_default_mappings()
current_mappings(f, dm) ==
  Or(load_config(f, "column_mappings", FALSE).val, PList(dm)).v

\* the widgets of the expander as the user left them
MapInput(applies_to, target_selection, source_file, source_col, default_val, trans_type) ==
  [applies_to |-> applies_to, target_selection |-> target_selection,
   source_file |-> source_file, source_col |-> source_col,
   default_val |-> default_val, trans_type |-> trans_type,
   picklist_file |-> IF trans_type = "Lookup Value"
                       THEN <<"status_mapping.csv">> ELSE <<>>,
   picklist_col |-> IF trans_type = "Lookup Value" THEN <<"status_code">> ELSE <<>>,
   second_col |-> IF trans_type = "Concatenate" THEN <<"Name">> ELSE <<>>,
   custom_code |-> IF trans_type = "Custom Python" THEN <<"value">> ELSE <<>>,
   target_col1 |-> <<>>, target_col2 |-> <<>>]

MaxAdds == 1

\* "Add Mapping" that forgets the mappings it loaded
add_mapping_replacing(f, dm, in, openFails) ==
  save_config(f, "column_mappings", PList(<<new_mapping(in)>>), openFails)

\* updated_mappings = current_mappings + [new_mapping]; save_config(...)
add_mapping(f, dm, in, openFails) ==
  save_config(f, "column_mappings",
              PList(current_mappings(f, dm) \o <<new_mapping(in)>>), openFails)

\* target_col1, target_col2 = target_selection.split(" | ")
Unpack(inp, parts) ==
  [inp EXCEPT !.target_col1 = IF Len(parts) = 2 THEN parts[1] ELSE <<>>,
              !.target_col2 = IF Len(parts) = 2 THEN parts[2] ELSE <<>>]

\* a run of the mapping tab in which "Add Mapping" was clicked
AddMapping(inp, openFails) ==
  \E parts \in {SplitBar(inp.target_selection)} :
  \E in \in {Unpack(inp, parts)} :
     /\ adds < MaxAdds
     /\ adds' = adds + 1
     /\ inp.source_col \in {<<>>} \cup
          {<<c>> : c \in get_source_columns(samples, inp.source_file)}
     /\ op' = [name |-> "add_mapping", t |-> "column_mappings", d |-> in,
               fault |-> openFails, raised |-> Len(parts) # 2]
     /\ IF Len(parts) # 2
          \* the unpacking raises ValueError, shown by the caller
          THEN /\ ui' = <<Msg("error", "Unexpected error in Admin panel")>>
               /\ UNCHANGED fs
        ELSE IF in.target_col1 = <<>> \/ in.target_col2 = <<>>
                  \/ in.applies_to = "" \/ in.source_file = ""
          THEN /\ ui' = <<Msg("error", "Please fill all required fields (*)")>>
               /\ UNCHANGED fs
        ELSE IF in.source_col = <<>> /\ in.default_val = <<>>
          THEN /\ ui' = <<Msg("error",
                              "Either Source Column or Default Value must be provided")>>
               /\ UNCHANGED fs
        ELSE \E r \in {add_mapping(fs, default_mappings, in, openFails)} :
               /\ fs' = r.fs
               /\ ui' = SaveMsgs(r) \o <<Msg("success", "Mapping added!")>>
     /\ UNCHANGED <<ret, sess, edVars, upVars, default_mappings, admVars, anaVars>>

\* what the user picks besides the target: source file, source column,
\* default value, transformation, and whether the write fails
MapForms ==
  { <<"HRP1000", <<>>, <<>>, "None", FALSE>>,
    <<"HRP1000", <<"Object ID">>, <<"x">>, "Custom Python", FALSE>>,
    <<"HRP1001", <<>>, <<"x">>, "Concatenate", FALSE>>,
    <<"HRP1001", <<"Parent ID">>, <<>>, "Lookup Value", FALSE>>,
    <<"HRP1000", <<"Start date">>, <<>>, "None", TRUE>> }

MapNext ==
  \E a \in {"Level", "Association", "Both"} :
    \E ts \in target_options(fs, DEFAULT_TEMPLATES, a), m \in MapForms :
      AddMapping(MapInput(a, ts, m[1], m[2], m[3], m[4]), m[5])

\* a mapping as get_default_mappings or an earlier Add Mapping may have made it
SomeMapping(c1) ==
  new_mapping([MapInput("Level", <<>>, "HRP1000", <<"Object ID">>, <<>>, "None")
                 EXCEPT !.target_col1 = c1, !.target_col2 = <<"Code">>])

\* utils.hierarchy_utils.get_default_mappings is imported, its code is not at
\* hand: the lists it may return are no mapping, or one mapping
get_default_mappings == {<<>>, <<SomeMapping(<<"default">>)>>}

\* the level template an administrator saved: a row without display name, a
\* row whose name holds the separator
MapLevelFile ==
  File(JsonDump(PList(<< Row(<<"p">>, <<"q">>, <<>>),
                         Row(<<"r">>, <<>>, <<>>),
                         Row(<<"s", SP, "|", SP, "t">>, <<"u">>, <<>>) >>)))
MapMappingFiles ==
  { NoFile, File(JsonDump(PList(<<>>))),
    File(JsonDump(PList(<<SomeMapping(<<"stored">>)>>))) }

MapInit ==
  /\ \E mf \in MapMappingFiles :
       fs = [p \in Paths |->
               IF p = final_path("level") THEN MapLevelFile
               ELSE IF p = final_path("column_mappings") THEN mf
               ELSE NoFile]
  /\ ret = [raised |-> FALSE, val |-> None, err |-> FALSE]
  /\ op = Op("init", "level", None, FALSE)
  /\ ui = <<>>
  /\ sess = SessInit
  /\ EdVarsInit
  /\ samples = [sf \in SourceFiles |->
                  IF sf = "HRP1000" THEN Sample({"Object ID", "Name", "Start date"})
                  ELSE NoSample]
  /\ default_mappings \in get_default_mappings
  /\ adds = 0
  /\ AdmVarsInit
  /\ AnaVarsInit

SpecMap == MapInit /\ [][MapNext]_vars

MappingInputValid(in) ==
  /\ in.target_col1 # <<>> /\ in.target_col2 # <<>>
  /\ in.applies_to # "" /\ in.source_file # ""
  /\ (in.source_col # <<>> \/ in.default_val # <<>>)

\* the chosen fields of the mapping the step stored last
StoredLast(f, in) ==
  LET ms == load_config(f, "column_mappings", FALSE).val.v
      m == ms[Len(ms)].v
  IN /\ DictGet(m, "target_column1", None) = PStr(in.target_col1)
     /\ DictGet(m, "target_column2", None) = PStr(in.target_col2)
     /\ DictGet(m, "source_file", None) = PStr(<<in.source_file>>)
     /\ DictGet(m, "source_column", None) = PStr(in.source_col)
     /\ DictGet(m, "default_value", None) = PStr(in.default_val)
     /\ DictGet(m, "transformation", None) = PStr(<<in.trans_type>>)
     /\ DictGet(m, "applies_to", None) = PStr(<<in.applies_to>>)

\* the step stores base + [the new mapping] when the input is valid and the
\* write succeeds, and otherwise reports an error and stores nothing
AddMappingStepFrom(base) ==
  op'.name = "add_mapping" =>
    IF ~op'.raised /\ ~op'.fault /\ MappingInputValid(op'.d)
      THEN LET after == load_config(fs', "column_mappings", FALSE).val IN
           /\ after.k = "list"
           /\ Len(after.v) = Len(base) + 1
           /\ SubSeq(after.v, 1, Len(base)) = base
           /\ StoredLast(fs', op'.d)
      ELSE /\ fs' = fs
           /\ Errors(ui') # {}

\* C8 as stated: Add Mapping appends exactly one mapping to the end of the
\* persisted column_mappings, leaving the existing ones unchanged and in order,
\* when the input is valid; otherwise it reports an error and the persisted
\* column_mappings is unchanged.
PersistedMappings ==
  IF load_config(fs, "column_mappings", FALSE).val.k = "list"
    THEN load_config(fs, "column_mappings", FALSE).val.v ELSE <<>>
Secrets ==
  { [available |-> FALSE, admin_password |-> ""],
    [available |-> TRUE, admin_password |-> ""],
    [available |-> TRUE, admin_password |-> "secret"] }
\* what a user types into the password field
Passwords == {"", "secret", "wrong"}
\* demo_page: not set, set by the caller, set by the Back button
DemoPages == {"unknown", "foundation", "sap_to_sf"}

\* st.checkbox("Admin Mode", key=f"foundation_admin_toggle_{demo_page}"):
\* a key not seen before is a new, unchecked checkbox
admin_toggle(w, page) == IF w.toggle_key = page THEN w.toggle ELSE FALSE

\* the if admin_toggle: ... else: ... of the sidebar; am is admin_mode so far
Sidebar(am, toggle, sec, entered_pw) ==
  IF toggle THEN
    IF ~sec.available
      THEN [admin_mode |-> TRUE, pw_shown |-> FALSE, entered_pw |-> ""]
    ELSE IF sec.admin_password # ""
      THEN [admin_mode |-> IF entered_pw = sec.admin_password THEN TRUE
                           ELSE IF entered_pw # "" THEN FALSE
                           ELSE am,
            pw_shown |-> TRUE, entered_pw |-> entered_pw]
    ELSE [admin_mode |-> TRUE, pw_shown |-> FALSE, entered_pw |-> ""]
  ELSE [admin_mode |-> FALSE, pw_shown |-> FALSE, entered_pw |-> ""]

\* panel_options that offers Admin whatever admin_mode is
panel_options_always_admin(am) ==
  <<"Admin", "Hierarchy", "Validation", "Transformation", "Statistics", "Dashboard">>

panel_options(am) ==
  (IF am THEN <<"Admin">> ELSE <<>>)
    \o <<"Hierarchy", "Validation", "Transformation", "Statistics", "Dashboard">>

\* st.radio("Select Panel", panel_options, key=...): the stored choice while
\* the options are those of the last run; when the options changed, the
\* first option or the stored choice if it is still offered
Radio(stored, options, shown) ==
  IF options = shown /\ \E i \in 1..Len(options) : options[i] = stored
    THEN {stored}
    ELSE {options[1]} \cup {options[i] : i \in {j \in 1..Len(options) : options[j] = stored}}

AdmFrame ==
  UNCHANGED <<fs, ret, op, ui, sess, edVars, upVars, mapVars, secrets, anaVars>>

\* a run of render_foundation_v2 to its end; w holds the widget values the
\* browser sent, page the value of demo_page
FullRun(w, page) ==
  \E toggle \in {admin_toggle(w, page)} :
  \E sb \in {Sidebar(admin_mode, toggle, secrets, w.pw)} :
  \E options \in {panel_options(sb.admin_mode)} :
  \E panel \in Radio(w.panel, options, run.panel_options) :
     /\ demo_page' = page
     /\ admin_mode' = sb.admin_mode
     /\ widgets' = [toggle_key |-> page, toggle |-> toggle,
                    pw |-> sb.entered_pw, panel |-> panel]
     /\ run' = [kind |-> "full", admin_toggle |-> toggle,
                pw_shown |-> sb.pw_shown, entered_pw |-> sb.entered_pw,
                panel_options |-> options, panel |-> panel,
                admin_panel |-> (panel = "Admin")]
     /\ AdmFrame

\* the page is opened, or rerun by a widget outside the admin gate
Rerun ==
  /\ run.kind \in {"none", "full"}
  /\ FullRun(widgets, demo_page)

\* the user clicks the Admin Mode checkbox
ToggleAdmin ==
  /\ run.kind = "full"
  /\ FullRun([widgets EXCEPT !.toggle = ~widgets.toggle], demo_page)

\* the user changes the content of the password field
EnterPassword(pw) ==
  /\ run.kind = "full" /\ run.pw_shown
  /\ pw # widgets.pw
  /\ FullRun([widgets EXCEPT !.pw = pw], demo_page)

\* the user picks one of the panels offered
SelectPanel(x) ==
  /\ run.kind = "full"
  /\ \E i \in 1..Len(run.panel_options) : run.panel_options[i] = x
  /\ x # widgets.panel
  /\ FullRun([widgets EXCEPT !.panel = x], demo_page)

\* "Back to Migration Options": demo_page is set and st.rerun() ends the run
\* before the checkbox
Back ==
  /\ run.kind = "full"
  /\ demo_page' = "sap_to_sf"
  /\ run' = [NoRun EXCEPT !.kind = "back", !.admin_toggle = widgets.toggle]
  /\ UNCHANGED <<admin_mode, widgets>>
  /\ AdmFrame

\* the caller stores its page in demo_page and renders the explorer again;
\* Streamlit may have kept or dropped the state of the widgets that the
\* run ended by st.rerun() did not reach
Navigate(page, keepToggle, keepPw) ==
  /\ run.kind = "back"
  /\ FullRun([widgets EXCEPT !.toggle = IF keepToggle THEN @ ELSE FALSE,
                             !.pw = IF keepPw THEN @ ELSE ""], page)

AdmNext ==
  \/ Rerun
  \/ ToggleAdmin
  \/ \E pw \in Passwords : EnterPassword(pw)
  \/ \E x \in {"Admin", "Hierarchy", "Validation", "Statistics"} : SelectPanel(x)
  \/ Back
  \/ \E page \in DemoPages, keepToggle \in BOOLEAN, keepPw \in BOOLEAN :
       Navigate(page, keepToggle, keepPw)

AdmInit ==
  /\ fs = [p \in Paths |-> NoFile]
  /\ ret = [raised |-> FALSE, val |-> None, err |-> FALSE]
  /\ op = Op("init", "level", None, FALSE)
  /\ ui = <<>>
  /\ sess = SessInit
  /\ EdVarsInit
  /\ UpVarsInit
  /\ MapVarsInit
  /\ admin_mode = FALSE
  /\ demo_page \in {"unknown", "foundation"}
  /\ widgets = [toggle_key |-> demo_page, toggle |-> FALSE, pw |-> "",
                panel |-> "Hierarchy"]
  /\ secrets \in Secrets
  /\ run = NoRun
  /\ AnaVarsInit

SpecAdmin == AdmInit /\ [][AdmNext]_vars

\* C9: the Admin panel is rendered in a run only if admin_mode is True in that
\* run, the 'Admin' option is offered only when admin_mode is True, and
\* admin_mode is False at the end of every run in which the Admin Mode
\* checkbox is unchecked.
AdminPanelOnlyInAdminMode ==
  /\ run.admin_panel => run.kind = "full" /\ admin_mode
  /\ (\E i \in 1..Len(run.panel_options) : run.panel_options[i] = "Admin")
       => admin_mode
  /\ (run.kind \in {"full", "back"} /\ ~run.admin_toggle) => ~admin_mode
AdminPanelOnlyInAdminModeWitness ==
  /\ run.kind = "full" /\ run.admin_panel /\ run.admin_toggle
  /\ secrets.admin_password # ""
  /\ run.entered_pw = secrets.admin_password

\* C10: when a non-empty admin password is configured, admin_mode is True
\* after the sidebar is processed in a run only if the password entered in
\* that same run equals the configured password.
AdminModeOnlyWithPasswordOfRun ==
  (/\ run.kind = "full"
   /\ secrets.available /\ secrets.admin_password # ""
   /\ admin_mode)
    => run.entered_pw = secrets.admin_password

(***************************************************************************)
(* pandas frames                                                           *)
(*                                                                         *)
(* A cell is an int, a float with an integral value, NaN or a string; a    *)
(* column has a name, a dtype and its cells; a frame has its index labels  *)
(* and its columns.  A string of characters the code looks into (an ID, a  *)
(* value that is stripped or cased) is a sequence of one-character         *)
(* symbols; fixed text of the program is one symbol.                       *)
(***************************************************************************)
CellInt(n) == [t |-> "int", n |-> n, s |-> <<>>]
CellFloat(n) == [t |-> "float", n |-> n, s |-> <<>>]
NaN == [t |-> "nan", n |-> 0, s |-> <<>>]
CellStr(s) == [t |-> "str", n |-> 0, s |-> s]

Digit(d) == <<"0", "1", "2", "3", "4", "5", "6", "7", "8", "9">>[d + 1]
RECURSIVE Digits(_)
Digits(n) == IF n < 10 THEN <<Digit(n)>> ELSE Digits(n \div 10) \o <<Digit(n % 10)>>

\* str(x) of a cell, which is also what Series.astype(str) makes of it
PyStr(c) ==
  CASE c.t = "int" -> Digits(c.n)
    [] c.t = "float" -> Digits(c.n) \o <<".", "0">>
    [] c.t = "nan" -> <<"n", "a", "n">>
    [] OTHER -> c.s

Column(name, dtype, vals) == [name |-> name, dtype |-> dtype, vals |-> vals]
Frame(cols) ==
  [none |-> FALSE,
   index |-> IF cols = <<>> THEN <<>> ELSE [i \in 1..Len(cols[1].vals) |-> i],
   columns |-> cols]
NoneFrame == [none |-> TRUE, index |-> <<>>, columns |-> <<>>]

\* name in df.columns, df[name]
HasColumn(df, name) == \E i \in 1..Len(df.columns) : df.columns[i].name = name
ColumnOf(df, name) ==
  df.columns[CHOOSE i \in 1..Len(df.columns) : df.columns[i].name = name]

\* DataFrame.iterrows() yields each row as one Series, so the row has one
\* dtype: object if some column is object, else float64 if some column is
\* float64, else int64; an int cell of a float64 row is a float
RowDtype(df) ==
  IF \E i \in 1..Len(df.columns) : df.columns[i].dtype = "object" THEN "object"
  ELSE IF \E i \in 1..Len(df.columns) : df.columns[i].dtype = "float64"
       THEN "float64"
  ELSE "int64"
Upcast(c, dtype) == IF dtype = "float64" /\ c.t = "int" THEN CellFloat(c.n) ELSE c
\* row.get(name, dflt) / row[name] for row r of df.iterrows()
RowGet(df, r, name, dflt) ==
  IF HasColumn(df, name)
  THEN Upcast(ColumnOf(df, name).vals[r], RowDtype(df))
  ELSE dflt

\* re.search(pat, s) for the patterns an ID can be: '.' matches any one
\* character, every other character of the model matches itself
ReMatchAt(pat, s, i) ==
  /\ i + Len(pat) - 1 <= Len(s)
  /\ \A k \in 1..Len(pat) : pat[k] = "." \/ pat[k] = s[i + k - 1]
ReSearch(pat, s) == \E i \in 1..(Len(s) + 1) : ReMatchAt(pat, s, i)

\* col.astype(str).str.contains(pat, na=False).any()
StrContainsAny(col, pat) ==
  \E r \in 1..Len(col.vals) : ReSearch(pat, PyStr(col.vals[r]))
\* col.astype(str).eq(x).any() and col.astype(str).eq(x).sum()
StrEqAny(col, x) == \E r \in 1..Len(col.vals) : PyStr(col.vals[r]) = x
StrEqSum(col, x) == Cardinality({r \in 1..Len(col.vals) : PyStr(col.vals[r]) = x})

(***************************************************************************)
(* The record detective (statistics_panel.py)                              *)
(***************************************************************************)
PBool(b) == [k |-> "bool", v |-> IF b THEN <<"True">> ELSE <<"False">>]
HasKey(kvs, key) == \E i \in 1..Len(kvs) : kvs[i][1] = key

\* " ".join(parts)
RECURSIVE JoinSp(_)
JoinSp(parts) ==
  IF parts = <<>> THEN <<>>
  ELSE IF Len(parts) = 1 THEN parts[1]
  ELSE parts[1] \o <<SP>> \o JoinSp(Tail(parts))

\* lines 462-466 and 487-491: some column of the frame holds the ID
FoundInFrame(data, object_id) ==
  /\ ~data.none
  /\ \E i \in 1..Len(data.columns) : StrContainsAny(data.columns[i], object_id)

\* lines 454-466: the level file of the assigned level
FoundInLevelFile(level_files, assigned_level, object_id) ==
  /\ HasKey(level_files, assigned_level)
  /\ FoundInFrame(DictGet(level_files, assigned_level, <<>>).data, object_id)
LevelEntry(level_files, assigned_level) ==
  <<"Level ">> \o assigned_level \o <<" file (">>
    \o DictGet(level_files, assigned_level, <<>>).filename \o <<")">>

\* lines 473-477
IsSource(hrp1001_df, object_id) ==
  IF HasColumn(hrp1001_df, "Source ID")
  THEN StrEqAny(ColumnOf(hrp1001_df, "Source ID"), object_id) ELSE FALSE
IsTarget(hrp1001_df, object_id) ==
  IF HasColumn(hrp1001_df, "Target object ID")
  THEN StrEqAny(ColumnOf(hrp1001_df, "Target object ID"), object_id) ELSE FALSE
HasRelationships_source_only(hrp1001_df, object_id) ==
  IF hrp1001_df.none THEN FALSE ELSE IsSource(hrp1001_df, object_id)
HasRelationships(hrp1001_df, object_id) ==
  IF hrp1001_df.none THEN FALSE
  ELSE IsSource(hrp1001_df, object_id) \/ IsTarget(hrp1001_df, object_id)

\* lines 482-491: one appears_in entry per association file that holds the ID
RECURSIVE AssociationEntries(_, _)
AssociationEntries(association_files, object_id) ==
  IF association_files = <<>> THEN <<>>
  ELSE (IF FoundInFrame(Head(association_files)[2].data, object_id)
        THEN << <<"Association Level ">> \o Head(association_files)[1]
                  \o <<" file (">> \o Head(association_files)[2].filename
                  \o <<")">> >>
        ELSE <<>>)
       \o AssociationEntries(Tail(association_files), object_id)

\* the dict literal of lines 426-440
NewAnalysis(object_id, unit_name, status) ==
  [object_id |-> object_id, unit_name |-> unit_name, source_status |-> status,
   status |-> "SUCCESS", explanation |-> <<>>, technical_details |-> <<>>,
   appears_in |-> <<>>, missing_from |-> <<>>, recommendations |-> <<>>,
   issue_type |-> "None", severity |-> "LOW", root_cause |-> <<>>,
   how_to_fix |-> <<>>]

\* lines 449-451 and 479-480
TechnicalDetails(unit_info, hrp1001_df, object_id) ==
  << <<"assigned_level", PStr(unit_info.level)>>,
     <<"parent_unit", PStr(unit_info.parent)>>,
     <<"children_count", PNum(Digits(unit_info.children))>> >>
  \o (IF hrp1001_df.none THEN <<>>
      ELSE << <<"appears_as_source", PBool(IsSource(hrp1001_df, object_id))>>,
              <<"appears_as_target", PBool(IsTarget(hrp1001_df, object_id))>> >>)

\* lines 495-513: the sentences of a record found in its level file
ExplanationParts(object_id, unit_name, unit_info, has_relationships, found_in_associations) ==
  << <<"Object ID ">> \o object_id \o <<" ('">> \o PyStr(unit_name)
       \o <<"') was successfully processed.">>,
     <<"It was assigned to hierarchy Level ">> \o unit_info.level \o <<".">>,
     <<"It correctly appears in the Level ">> \o unit_info.level
       \o <<" output file.">> >>
  \o (IF unit_info.parent # <<>> /\ unit_info.parent # <<"None">>
      THEN << <<"It reports to parent unit ">> \o unit_info.parent \o <<".">> >>
      ELSE << <<"It appears to be a top-level unit with no parent.">> >>)
  \o (IF unit_info.children > 0
      THEN << <<"It has ">> \o Digits(unit_info.children)
                \o <<" subordinate unit(s) reporting to it.">> >>
      ELSE <<>>)
  \o (IF ~has_relationships THEN <<>>
      ELSE IF found_in_associations
      THEN << <<"Its reporting relationships are correctly included in association files.">> >>
      ELSE << <<"WARNING: It has relationships in source data but may be missing from association files.">> >>)

\* lines 494-524
FoundAnalysis(a, unit_info, level_entry, assoc_entries, has_relationships) ==
  [a EXCEPT
     !.appears_in = <<level_entry>> \o assoc_entries,
     !.status = IF has_relationships /\ assoc_entries = <<>>
                THEN "WARNING" ELSE "SUCCESS",
     !.missing_from = IF has_relationships /\ assoc_entries = <<>>
                      THEN << <<"Some association files">> >> ELSE <<>>,
     !.explanation =
        JoinSp(ExplanationParts(a.object_id, a.unit_name, unit_info,
                                has_relationships, assoc_entries # <<>>)),
     !.recommendations =
        IF has_relationships /\ assoc_entries = <<>>
        THEN << <<"Check why association relationships are missing">>,
                <<"Verify hierarchy processing completed successfully">>,
                <<"Review association file generation logic">> >>
        ELSE <<>>]

\* lines 525-538
MissingAnalysis(a, unit_info, assoc_entries) ==
  [a EXCEPT
     !.appears_in = assoc_entries,
     !.status = "ERROR",
     !.issue_type = "MISSING_FROM_OUTPUT",
     !.severity = "HIGH",
     !.explanation =
        <<"Object ID ">> \o a.object_id \o <<" ('">> \o PyStr(a.unit_name)
          \o <<"') exists in source HRP1000 data and was assigned to Level ">>
          \o unit_info.level
          \o <<", but it does not appear in the corresponding Level ">>
          \o unit_info.level \o <<" output file.">>,
     !.root_cause =
        <<"The transformation process failed to include this record in the output files, possibly due to mapping errors, data type issues, or transformation rule problems.">>,
     !.how_to_fix =
        << <<"Check the column mapping configuration for Level files">>,
           <<"Verify that the Object ID column mapping is correct">>,
           <<"Review transformation rules for data type compatibility">>,
           <<"Check for any filtering logic that might exclude this record">> >>,
     !.missing_from = << <<"Level ">> \o unit_info.level \o <<" output file">> >>]

\* lines 539-553
NotInHierarchyAnalysis(a) ==
  [a EXCEPT
     !.status = "ERROR",
     !.issue_type = "NOT_IN_HIERARCHY",
     !.severity = "HIGH",
     !.explanation =
        <<"Object ID ">> \o a.object_id \o <<" ('">> \o PyStr(a.unit_name)
          \o <<"') exists in source HRP1000 data but was not assigned to any hierarchy level during processing.">>,
     !.root_cause =
        <<"The hierarchy analysis failed to process this organizational unit, possibly due to missing relationships, circular references, or data quality issues.">>,
     !.how_to_fix =
        << <<"Check if this unit has valid relationships in HRP1001">>,
           <<"Verify the Object ID format is consistent">>,
           <<"Look for circular reference issues in reporting relationships">>,
           <<"Check if the unit is marked as inactive but still referenced">> >>,
     !.missing_from = << <<"Hierarchy structure">>, <<"All output files">> >>]

\* lines 443-538: the branch of an ID that is a key of hierarchy_structure
InHierarchyAnalysis(a, unit_info, hrp1001_df, level_files, association_files) ==
  IF FoundInLevelFile(level_files, unit_info.level, a.object_id)
  THEN FoundAnalysis(a, unit_info, LevelEntry(level_files, unit_info.level),
                     IF HasRelationships(hrp1001_df, a.object_id)
                     THEN AssociationEntries(association_files, a.object_id)
                     ELSE <<>>,
                     HasRelationships(hrp1001_df, a.object_id))
  ELSE MissingAnalysis(a, unit_info,
                       IF HasRelationships(hrp1001_df, a.object_id)
                       THEN AssociationEntries(association_files, a.object_id)
                       ELSE <<>>)

analyze_single_record(object_id, unit_name, status, hrp1000_df, hrp1001_df, output_files, hierarchy_structure) ==
  IF hierarchy_structure # <<>> /\ HasKey(hierarchy_structure, object_id)
  THEN [InHierarchyAnalysis(NewAnalysis(object_id, unit_name, status),
                            DictGet(hierarchy_structure, object_id, <<>>),
                            hrp1001_df, output_files.level_files,
                            output_files.association_files)
          EXCEPT !.technical_details =
            TechnicalDetails(DictGet(hierarchy_structure, object_id, <<>>),
                             hrp1001_df, object_id)]
  ELSE NotInHierarchyAnalysis(NewAnalysis(object_id, unit_name, status))

\* lines 577-582
RelationshipCount(hrp1001_df, object_id) ==
  IF hrp1001_df.none THEN 0
  ELSE (IF HasColumn(hrp1001_df, "Source ID")
        THEN StrEqSum(ColumnOf(hrp1001_df, "Source ID"), object_id) ELSE 0)
       + (IF HasColumn(hrp1001_df, "Target object ID")
          THEN StrEqSum(ColumnOf(hrp1001_df, "Target object ID"), object_id)
          ELSE 0)

\* lines 560-599: the analysis of an ID that occurs relationship_count times
OrphanAnalysis(object_id, id_type, relationship_count) ==
  [object_id |-> object_id,
   unit_name |-> CellStr(<<"Unknown (not in HRP1000)">>),
   source_status |-> CellStr(<<"Missing">>),
   status |-> "ERROR",
   explanation |->
     <<"Object ID ">> \o object_id \o <<" appears ">>
       \o Digits(relationship_count)
       \o <<" time(s) in HRP1001 relationships as '">> \o <<id_type>>
       \o <<"' but does not exist in the HRP1000 organizational units file. This creates an orphaned relationship that cannot be processed.">>,
   technical_details |->
     << <<"relationship_count", PNum(Digits(relationship_count))>>,
        <<"id_type", PStr(<<id_type>>)>> >>,
   appears_in |->
     << <<"HRP1001 relationships (">> \o Digits(relationship_count)
          \o <<" times)">> >>,
   missing_from |-> << <<"HRP1000 source data">> >>,
   recommendations |-> <<>>,
   issue_type |-> "ORPHANED_RELATIONSHIP",
   severity |-> "CRITICAL",
   root_cause |->
     <<"This ID is referenced in reporting relationships but the corresponding organizational unit is missing from the master data file (HRP1000). This could be due to incomplete data extraction, deleted units still being referenced, or data synchronization issues.">>,
   how_to_fix |->
     << <<"Add the missing organizational unit ">> \o object_id
          \o <<" to HRP1000 with proper name and status">>,
        <<"Remove the invalid relationships referencing ">> \o object_id
          \o <<" from HRP1001">>,
        <<"Check your data extraction process to ensure all referenced units are included">>,
        <<"Verify if this unit was recently deleted but relationships weren't updated">> >>]

\* lines 557-601
analyze_orphaned_relationship_id(object_id, id_type, hrp1000_df, hrp1001_df) ==
  OrphanAnalysis(object_id, id_type, RelationshipCount(hrp1001_df, object_id))

\* lines 603-616 and 618-631
get_issue_description(issue_type) ==
  CASE issue_type = "MISSING_FROM_OUTPUT" ->
         <<"Records that exist in source but missing from output files">>
    [] issue_type = "NOT_IN_HIERARCHY" ->
         <<"Records that could not be assigned to hierarchy levels">>
    [] issue_type = "ORPHANED_RELATIONSHIP" ->
         <<"Relationship references to non-existent organizational units">>
    [] OTHER -> <<"Unknown issue type">>
RECURSIVE categorize_issues(_, _)
categorize_issues(issues, categories) ==
  IF issues = <<>> THEN categories
  ELSE categorize_issues(
         Tail(issues),
         DictSet(categories, Head(issues)[2].issue_type,
                 [count |-> DictGet(categories, Head(issues)[2].issue_type,
                                    [count |-> 0]).count + 1,
                  description |->
                    get_issue_description(Head(issues)[2].issue_type)]))

\* lines 352-358
NewReport ==
  [all_records |-> <<>>, successful_transformations |-> <<>>,
   issues_found |-> <<>>, issue_categories |-> <<>>,
   analysis_metadata |-> <<>>]

\* lines 380-386
AddRecord(rep, object_id, record_analysis) ==
  [rep EXCEPT
     !.all_records = DictSet(@, object_id, record_analysis),
     !.successful_transformations =
        IF record_analysis.status = "SUCCESS"
        THEN DictSet(@, object_id, record_analysis) ELSE @,
     !.issues_found =
        IF record_analysis.status = "SUCCESS"
        THEN @ ELSE DictSet(@, object_id, record_analysis)]

\* lines 368-378: the analysis of row r of HRP1000
RecordOfRow(st, r) ==
  analyze_single_record(
    PyStr(RowGet(st.source_hrp1000, r, "Object ID", NaN)),
    RowGet(st.source_hrp1000, r, "Name", CellStr(<<"Unknown">>)),
    RowGet(st.source_hrp1000, r, "Planning status", CellStr(<<"Unknown">>)),
    st.source_hrp1000, st.source_hrp1001,
    [level_files |-> st.level_files,
     association_files |-> st.association_files],
    st.hierarchy_structure)

\* lines 367-386
RECURSIVE AnalyzeRecords(_, _, _)
AnalyzeRecords(rep, st, r) ==
  IF r > Len(st.source_hrp1000.index) THEN rep
  ELSE AnalyzeRecords(
         AddRecord(rep, PyStr(RowGet(st.source_hrp1000, r, "Object ID", NaN)),
                   RecordOfRow(st, r)),
         st, r + 1)

\* lines 395-400 and 402-407
AddOrphan(rep, id, id_type, st) ==
  IF id # <<>> /\ ~HasKey(rep.all_records, id)
  THEN [rep EXCEPT
          !.all_records =
             DictSet(@, id, analyze_orphaned_relationship_id(
                              id, id_type, st.source_hrp1000, st.source_hrp1001)),
          !.issues_found =
             DictSet(@, id, analyze_orphaned_relationship_id(
                              id, id_type, st.source_hrp1000, st.source_hrp1001))]
  ELSE rep

\* lines 389-407
RECURSIVE AnalyzeRelationships(_, _, _)
AnalyzeRelationships(rep, st, r) ==
  IF r > Len(st.source_hrp1001.index) THEN rep
  ELSE AnalyzeRelationships(
         AddOrphan(
           AddOrphan(rep,
                     PyStr(RowGet(st.source_hrp1001, r, "Source ID", CellStr(<<>>))),
                     "Source ID", st),
           PyStr(RowGet(st.source_hrp1001, r, "Target object ID", CellStr(<<>>))),
           "Target object ID", st),
         st, r + 1)

\* lines 409-419: success_rate is the quotient of the pair times one
Summary(rep) ==
  [rep EXCEPT
     !.issue_categories = categorize_issues(rep.issues_found, <<>>),
     !.analysis_metadata =
        [total_records_analyzed |-> Len(rep.all_records),
         success_count |-> Len(rep.successful_transformations),
         issue_count |-> Len(rep.issues_found),
         success_rate |->
           IF rep.all_records # <<>>
           THEN <<Len(rep.successful_transformations) * 100, Len(rep.all_records)>>
           ELSE <<0, 1>>]]

\* lines 367-386: skipped when HRP1000 is missing or has no 'Object ID'
RecordsReport(st) ==
  IF ~st.source_hrp1000.none /\ HasColumn(st.source_hrp1000, "Object ID")
  THEN AnalyzeRecords(NewReport, st, 1) ELSE NewReport

\* the clock value of analysis_timestamp is left out
generate_detective_report(st) ==
  Summary(IF st.source_hrp1001.none THEN RecordsReport(st)
          ELSE AnalyzeRelationships(RecordsReport(st), st, 1))

(***************************************************************************)
(* The detective on loaded data: the session holds the two source frames,  *)
(* the hierarchy and the generated output files; the panel analyses one    *)
(* row of HRP1000 or builds the whole report.                              *)
(***************************************************************************)
NameColumn(n) ==
  Column("Name", "object", [i \in 1..n |-> CellStr(<<"Unit">>)])
IntColumn(name, ns) == Column(name, "int64", [i \in 1..Len(ns) |-> CellInt(ns[i])])

Hrp1000Frames ==
  { NoneFrame,
    Frame(<<NameColumn(1)>>),
    Frame(<<IntColumn("Object ID", <<1>>), NameColumn(1)>>),
    Frame(<<IntColumn("Object ID", <<10>>), NameColumn(1)>>),
    Frame(<<IntColumn("Object ID", <<1, 10>>), NameColumn(2)>>),
    Frame(<<IntColumn("Object ID", <<10, 10>>), NameColumn(2)>>) }

Hrp1001Frames ==
  { NoneFrame,
    Frame(<<IntColumn("Source ID", <<1>>), IntColumn("Target object ID", <<10>>)>>),
    Frame(<<IntColumn("Source ID", <<10, 10>>),
            IntColumn("Target object ID", <<1, 10>>)>>),
    Frame(<<IntColumn("Source ID", <<10>>)>>),
    Frame(<<Column("Source ID", "float64", <<CellFloat(10), NaN>>),
            IntColumn("Target object ID", <<1, 1>>)>>),
    Frame(<<Column("Source ID", "object", <<CellStr(<<>>)>>),
            Column("Target object ID", "object", <<CellStr(<<"1", "0">>)>>)>>) }

UnitInfo(level, parent, children) ==
  [level |-> level, parent |-> parent, children |-> children]
Hierarchies ==
  { <<>>,
    << <<Digits(1), UnitInfo(<<"1">>, <<"None">>, 0)>> >>,
    << <<Digits(1), UnitInfo(<<"1">>, <<>>, 1)>>,
       <<Digits(10), UnitInfo(<<"2">>, Digits(1), 0)>> >>,
    << <<Digits(10), UnitInfo(<<"1">>, <<"None">>, 0)>> >> }

OutputFile(data, filename) == [data |-> data, filename |-> <<filename>>]
LevelData(ids) ==
  Frame(<<IntColumn("externalCode", ids),
          Column("name", "object", [i \in 1..Len(ids) |-> CellStr(<<"Unit">>)])>>)
LevelFileSets ==
  { <<>>,
    << <<<<"1">>, OutputFile(NoneFrame, "level_1.csv")>> >>,
    << <<<<"1">>, OutputFile(LevelData(<<1>>), "level_1.csv")>> >>,
    << <<<<"1">>, OutputFile(LevelData(<<10>>), "level_1.csv")>> >>,
    << <<<<"1">>, OutputFile(LevelData(<<1>>), "level_1.csv")>>,
       <<<<"2">>, OutputFile(LevelData(<<10>>), "level_2.csv")>> >>,
    << <<<<"1">>, OutputFile(LevelData(<<1>>), "level_1.csv")>>,
       <<<<"2">>, OutputFile(LevelData(<<100>>), "level_2.csv")>> >> }
AssociationData(ids, parents) ==
  Frame(<<IntColumn("externalCode", ids), IntColumn("parent", parents)>>)
AssociationFileSets ==
  { <<>>,
    << <<<<"2">>, OutputFile(NoneFrame, "assoc_2.csv")>> >>,
    << <<<<"2">>, OutputFile(AssociationData(<<10>>, <<1>>), "assoc_2.csv")>> >>,
    << <<<<"2">>, OutputFile(AssociationData(<<100>>, <<100>>), "assoc_2.csv")>> >> }

DetInit ==
  /\ fs = [p \in Paths |-> NoFile]
  /\ ret = [raised |-> FALSE, val |-> None, err |-> FALSE]
  /\ op = Op("init", "level", None, FALSE)
  /\ ui = <<>>
  /\ sess = SessInit
  /\ EdVarsInit
  /\ UpVarsInit
  /\ MapVarsInit
  /\ AdmVarsInit
  /\ PayVarsInit
  /\ \E h0 \in Hrp1000Frames, h1 \in Hrp1001Frames, hs \in Hierarchies,
        lf \in LevelFileSets, af \in AssociationFileSets :
       state = [source_hrp1000 |-> h0, source_hrp1001 |-> h1,
                level_files |-> lf, association_files |-> af,
                hierarchy_structure |-> hs]
  /\ detective = [kind |-> "none"]

DetFrame ==
  UNCHANGED <<fs, ret, op, ui, sess, edVars, upVars, mapVars, admVars, payVars,
              state>>

\* lines 368-378: the analysis of one row of HRP1000
AnalyzeSingleRecord(r) ==
  /\ ~state.source_hrp1000.none
  /\ HasColumn(state.source_hrp1000, "Object ID")
  /\ r \in 1..Len(state.source_hrp1000.index)
  /\ detective' = [kind |-> "record", analysis |-> RecordOfRow(state, r)]
  /\ DetFrame

\* line 1161: the panel builds the report from the session's state
GenerateDetectiveReport ==
  /\ detective' = [kind |-> "report", report |-> generate_detective_report(state)]
  /\ DetFrame

MaxRows == 2
DetNext ==
  \/ \E r \in 1..MaxRows : AnalyzeSingleRecord(r)
  \/ GenerateDetectiveReport

SpecDet == DetInit /\ [][DetNext]_vars


Analysed == detective.kind = "record"
InHierarchy(id) == HasKey(state.hierarchy_structure, id)
AssignedLevel(id) == DictGet(state.hierarchy_structure, id, <<>>).level
CellsOf(data) ==
  IF data.none THEN {}
  ELSE {data.columns[i].vals[r] :
          i \in 1..Len(data.columns), r \in 1..Len(data.index)}
\* the cells of the level file of the level the ID is assigned to
LevelCells(id) ==
  UNION {CellsOf(state.level_files[i][2].data) :
           i \in {j \in 1..Len(state.level_files) :
                    state.level_files[j][1] = AssignedLevel(id)}}
AssociationCells ==
  UNION {CellsOf(state.association_files[i][2].data) :
           i \in 1..Len(state.association_files)}
\* the search of the detective finds the ID in one of the cells
FoundAmong(cells, id) == \E c \in cells : ReSearch(id, PyStr(c))
RelationshipCells ==
  IF state.source_hrp1001.none THEN {}
  ELSE UNION {{<<i, r>> : r \in 1..Len(state.source_hrp1001.index)} :
                i \in {j \in 1..Len(state.source_hrp1001.columns) :
                         state.source_hrp1001.columns[j].name
                           \in {"Source ID", "Target object ID"}}}
RelationshipId(p) == PyStr(state.source_hrp1001.columns[p[1]].vals[p[2]])
OccursInHrp1001(id) == \E p \in RelationshipCells : RelationshipId(p) = id
Outcome(a) == <<a.status, a.issue_type>>

\* C11: analyze_single_record classifies an Object ID of HRP1000 into exactly
\* one of four outcomes: ERROR/NOT_IN_HIERARCHY iff it is no key of
\* hierarchy_structure; ERROR/MISSING_FROM_OUTPUT iff it is a key and the
\* search does not find it in the level file of its level; WARNING iff it is
\* found there, occurs as Source ID or Target object ID in HRP1001 and is
\* found in no association file; SUCCESS iff it is found there and occurs in
\* no relationship or is found in an association file.  Both ERROR outcomes
\* have severity HIGH.
RecordClassification ==
  Analysed =>
    LET a == detective.analysis
        id == detective.analysis.object_id
        found == InHierarchy(id) /\ FoundAmong(LevelCells(id), id)
    IN /\ Outcome(a) \in {<<"ERROR", "NOT_IN_HIERARCHY">>,
                          <<"ERROR", "MISSING_FROM_OUTPUT">>,
                          <<"WARNING", "None">>, <<"SUCCESS", "None">>}
       /\ Outcome(a) = <<"ERROR", "NOT_IN_HIERARCHY">> <=> ~InHierarchy(id)
       /\ Outcome(a) = <<"ERROR", "MISSING_FROM_OUTPUT">>
            <=> (InHierarchy(id) /\ ~found)
       /\ a.status = "WARNING"
            <=> (/\ found
                 /\ OccursInHrp1001(id)
                 /\ ~FoundAmong(AssociationCells, id))
       /\ a.status = "SUCCESS"
            <=> (/\ found
                 /\ (~OccursInHrp1001(id) \/ FoundAmong(AssociationCells, id)))
       /\ a.status = "ERROR" => a.severity = "HIGH"

\* a record that is only a Target object ID, found in its level file and in
\* no association file, is analysed and gets a WARNING
RecordClassificationWitness ==
  /\ Analysed
  /\ detective.analysis.status = "WARNING"
  /\ ~IsSource(state.source_hrp1001, detective.analysis.object_id)
  /\ IsTarget(state.source_hrp1001, detective.analysis.object_id)

\* C16: an Object ID is reported as appearing in the output file of its level
\* (status SUCCESS or WARNING) only if some cell of that file, read as a
\* string, equals the ID; being a part of another cell's text is not enough.
AppearsOnlyIfCellEquals ==
  (Analysed /\ detective.analysis.status \in {"SUCCESS", "WARNING"})
    => \E c \in LevelCells(detective.analysis.object_id) :
         PyStr(c) = detective.analysis.object_id

Reported == detective.kind = "report"
ObjectIds ==
  IF state.source_hrp1000.none \/ ~HasColumn(state.source_hrp1000, "Object ID")
  THEN {}
  ELSE {PyStr(ColumnOf(state.source_hrp1000, "Object ID").vals[r]) :
          r \in 1..Len(state.source_hrp1000.index)}
RelationshipIds == {RelationshipId(p) : p \in RelationshipCells} \ {<<>>}
IsOrphanIssue(a) ==
  /\ a.status = "ERROR"
  /\ a.issue_type = "ORPHANED_RELATIONSHIP"
  /\ a.severity = "CRITICAL"

\* C12: generate_detective_report reports every non-empty Source ID or Target
\* object ID of HRP1001 that is no Object ID of HRP1000 as an issue with
\* status ERROR, type ORPHANED_RELATIONSHIP and severity CRITICAL whose
\* relationship_count is the number of cells of the two columns equal to the
\* ID; no Object ID of HRP1000 is reported as ORPHANED_RELATIONSHIP.
OrphansReported ==
  Reported =>
    LET issues == detective.report.issues_found IN
    /\ \A id \in RelationshipIds \ ObjectIds :
         /\ HasKey(issues, id)
         /\ IsOrphanIssue(DictGet(issues, id, <<>>))
         /\ DictGet(DictGet(issues, id, <<>>).technical_details,
                    "relationship_count", None)
              = PNum(Digits(Cardinality({p \in RelationshipCells :
                                           RelationshipId(p) = id})))
    /\ \A i \in 1..Len(issues) :
         issues[i][1] \in ObjectIds
           => issues[i][2].issue_type # "ORPHANED_RELATIONSHIP"

\* C13: every record of issues_found carries a non-empty explanation and a
\* non-empty root_cause.
IssuesExplained ==
  Reported =>
    \A i \in 1..Len(detective.report.issues_found) :
      /\ detective.report.issues_found[i][2].explanation # <<>>
      /\ detective.report.issues_found[i][2].root_cause # <<>>


(***************************************************************************)
(* The payroll tool (payroll/app.py)                                       *)
(***************************************************************************)
\* str.upper(), str.lower() and str.title() on the letters of the model
LowerLetters == {"a", "n"}
UpperLetters == {"A", "N"}
UpperChar(c) == CASE c = "a" -> "A" [] c = "n" -> "N" [] OTHER -> c
LowerChar(c) == CASE c = "A" -> "a" [] c = "N" -> "n" [] OTHER -> c
StrUpper(s) == [i \in 1..Len(s) |-> UpperChar(s[i])]
StrLower(s) == [i \in 1..Len(s) |-> LowerChar(s[i])]
\* a letter that follows a letter is lower-cased, every other letter is
\* upper-cased
StrTitle(s) ==
  [i \in 1..Len(s) |->
     IF i > 1 /\ s[i - 1] \in LowerLetters \cup UpperLetters
     THEN LowerChar(s[i]) ELSE UpperChar(s[i])]

\* s.upper(), s.lower(), s.strip() or s.title()
StrMethod(f, s) ==
  CASE f = "upper" -> StrUpper(s)
    [] f = "lower" -> StrLower(s)
    [] f = "strip" -> Strip(s)
    [] f = "title" -> StrTitle(s)
\* col.astype(str).str.<f>(): an object column of strings
StrMap(col, f) ==
  Column(col.name, "object",
         [r \in 1..Len(col.vals) |-> CellStr(StrMethod(f, PyStr(col.vals[r])))])

\* the dtype pandas gives a Series built from these values
InferDtype(vals) ==
  IF \E r \in 1..Len(vals) : vals[r].t = "str" THEN "object"
  ELSE IF \E r \in 1..Len(vals) : vals[r].t \in {"float", "nan"} THEN "float64"
  ELSE "int64"
Series(name, vals) ==
  Column(name, InferDtype(vals),
         [r \in 1..Len(vals) |-> Upcast(vals[r], InferDtype(vals))])

\* df_out[dst_col] = series: replaces the column or appends a new one
SetColumn(df, name, col) ==
  [df EXCEPT !.columns =
     IF HasColumn(df, name)
     THEN [i \in 1..Len(df.columns) |->
             IF df.columns[i].name = name
             THEN Column(name, col.dtype, col.vals) ELSE df.columns[i]]
     ELSE Append(df.columns, Column(name, col.dtype, col.vals))]

\* x == y for two cells: numbers by value, strings by text, NaN equals nothing
CellEq(x, y) ==
  \/ x.t \in {"int", "float"} /\ y.t \in {"int", "float"} /\ x.n = y.n
  \/ x.t = "str" /\ y.t = "str" /\ x.s = y.s

\* lines 31-38: the second cell of the first matching row; any exception (a
\* picklist of one column) gives the value back
apply_picklist_lookup(value, picklist_df, column_name) ==
  IF /\ \E r \in 1..Len(picklist_df.index) :
          CellEq(ColumnOf(picklist_df, column_name).vals[r], value)
     /\ Len(picklist_df.columns) >= 2
  THEN Upcast(picklist_df.columns[2].vals[
                CHOOSE r \in 1..Len(picklist_df.index) :
                  /\ CellEq(ColumnOf(picklist_df, column_name).vals[r], value)
                  /\ \A q \in 1..(r - 1) :
                       ~CellEq(ColumnOf(picklist_df, column_name).vals[q], value)],
              RowDtype(picklist_df))
  ELSE value

\* lines 60-63: the first picklist that has a column named like the source
HasPicklistFor(picklists, src_col) ==
  \E i \in 1..Len(picklists) : HasColumn(picklists[i][2], src_col)
PicklistFor(picklists, src_col) ==
  picklists[CHOOSE i \in 1..Len(picklists) :
              /\ HasColumn(picklists[i][2], src_col)
              /\ \A j \in 1..(i - 1) : ~HasColumn(picklists[j][2], src_col)][2]
LookupColumn(col, pick_df) ==
  Series(col.name,
         [r \in 1..Len(col.vals) |->
            apply_picklist_lookup(col.vals[r], pick_df, col.name)])

\* line 58: pd.to_datetime(col, errors="coerce").dt.strftime('%Y-%m-%d'); a
\* text is a date when it is one of the two date texts of the model, a number
\* counts nanoseconds from 1970-01-01, everything else is coerced to NaT
DateTexts == {"2024-01-05", "2024/01/05"}
DateFormatCell(c) ==
  CASE c.t \in {"int", "float"} -> CellStr(<<"1970-01-01">>)
    [] c.t = "str" /\ Len(c.s) = 1 /\ c.s[1] \in DateTexts ->
         CellStr(<<"2024-01-05">>)
    [] OTHER -> NaN
DateFormatColumn(col) ==
  Series(col.name, [r \in 1..Len(col.vals) |-> DateFormatCell(col.vals[r])])

\* lines 48-67: df[src_col], read from the input frame
SourceColumn_from_output(df, df_out, src_col) == ColumnOf(df_out, src_col)
SourceColumn(df, df_out, src_col) == ColumnOf(df, src_col)

\* lines 45-67: the column one mapping computes
Transformed(col, trans_type, picklists) ==
  CASE trans_type = "None" -> col
    [] trans_type = "UPPERCASE" -> StrMap(col, "upper")
    [] trans_type = "lowercase" -> StrMap(col, "lower")
    [] trans_type = "Trim Whitespace" -> StrMap(col, "strip")
    [] trans_type = "Title Case" -> StrMap(col, "title")
    [] trans_type = "Date Format (YYYY-MM-DD)" -> DateFormatColumn(col)
    [] trans_type = "Lookup Value" /\ picklists # <<>> ->
         IF HasPicklistFor(picklists, col.name)
         THEN LookupColumn(col, PicklistFor(picklists, col.name))
         ELSE col
    [] OTHER -> col

\* lines 41-68
RECURSIVE ApplyMappings(_, _, _, _)
ApplyMappings(df, df_out, mappings, picklists) ==
  IF mappings = <<>> THEN df_out
  ELSE ApplyMappings(
         df,
         SetColumn(df_out, DictGet(Head(mappings), "destination_column", ""),
                   Transformed(
                     SourceColumn(df, df_out,
                                  DictGet(Head(mappings), "source_column", "")),
                     DictGet(Head(mappings), "transformation", "None"),
                     picklists)),
         Tail(mappings), picklists)
apply_transformations(df, mappings, picklists) ==
  ApplyMappings(df, df, mappings, picklists)

\* lines 72-76: the object columns, stripped and lower-cased as strings
CleanseColumn(col, trim, lower) ==
  IF col.dtype # "object" THEN col
  ELSE IF trim /\ lower
       THEN StrMap(StrMap(col, "strip"), "lower")
  ELSE IF trim THEN StrMap(col, "strip")
  ELSE IF lower THEN StrMap(col, "lower")
  ELSE col
\* line 78: df.replace("", np.nan)
ReplaceEmpty(df) ==
  [df EXCEPT !.columns =
     [i \in 1..Len(df.columns) |->
        [df.columns[i] EXCEPT !.vals =
           [r \in 1..Len(df.index) |->
              IF @[r] = CellStr(<<>>) THEN NaN ELSE @[r]]]]]
\* line 80: df.dropna(): the rows without a NaN cell, under their labels
IsNullRow(df, r) == \E i \in 1..Len(df.columns) : df.columns[i].vals[r].t = "nan"
RECURSIVE KeptRows(_, _)
KeptRows(df, r) ==
  IF r > Len(df.index) THEN <<>>
  ELSE (IF IsNullRow(df, r) THEN <<>> ELSE <<r>>) \o KeptRows(df, r + 1)
TakeRows(df, rows) ==
  [none |-> FALSE,
   index |-> [k \in 1..Len(rows) |-> df.index[rows[k]]],
   columns |-> [i \in 1..Len(df.columns) |->
                  [df.columns[i] EXCEPT !.vals =
                     [k \in 1..Len(rows) |-> df.columns[i].vals[rows[k]]]]]]
DropNa(df) == TakeRows(df, KeptRows(df, 1))

CleanseColumns(df, trim, lower) ==
  [df EXCEPT !.columns =
     [i \in 1..Len(df.columns) |-> CleanseColumn(df.columns[i], trim, lower)]]
cleanse_dataframe(df, trim, lower, empty_nan, drop_null) ==
  IF drop_null
  THEN DropNa(IF empty_nan THEN ReplaceEmpty(CleanseColumns(df, trim, lower))
              ELSE CleanseColumns(df, trim, lower))
  ELSE IF empty_nan THEN ReplaceEmpty(CleanseColumns(df, trim, lower))
  ELSE CleanseColumns(df, trim, lower)

(***************************************************************************)
(* render_payroll_tool: an uploaded sheet is cleansed with the options of  *)
(* the sidebar and then transformed with the stored mappings and picklists *)
(***************************************************************************)
PayFrames ==
  { Frame(<<Column("A", "object", <<CellStr(<<" ", "a", "N">>), NaN>>),
            Column("B", "float64", <<CellFloat(1), CellFloat(2)>>)>>),
    Frame(<<Column("A", "object", <<CellStr(<<"a", " ", "a">>), CellStr(<<>>)>>),
            Column("B", "float64", <<NaN, CellFloat(1)>>)>>),
    Frame(<<Column("A", "object", <<CellStr(<<"2024/01/05">>), CellStr(<<"A">>)>>),
            Column("B", "int64", <<CellInt(1), CellInt(2)>>)>>),
    Frame(<<Column("A", "object", <<CellStr(<<" ">>)>>),
            Column("B", "int64", <<CellInt(1)>>)>>) }

\* the names lines 47-59 compare with, and the names a stored mapping has
TransformationNames ==
  {"None", "UPPERCASE", "lowercase", "Trim Whitespace", "Title Case",
   "Date Format (YYYY-MM-DD)", "Lookup Value"}
Transformations == TransformationNames \cup {"Reverse"}
Mapping(src, dst, t) ==
  << <<"source_column", src>>, <<"destination_column", dst>>,
     <<"transformation", t>> >>
\* a mapping stored without the 'transformation' key
PlainMapping(src, dst) ==
  << <<"source_column", src>>, <<"destination_column", dst>> >>
FirstMappings ==
  {Mapping(src, dst, t) : src \in {"A", "B"}, dst \in {"X", "A"},
                          t \in Transformations}
    \cup {PlainMapping("A", "X")}
NextMappings ==
  {Mapping("A", "X", "None"), Mapping("B", "X", "UPPERCASE"),
   Mapping("A", "Y", "Title Case")}
MappingLists ==
  {<<>>} \cup {<<m>> : m \in FirstMappings}
         \cup {<<m, n>> : m \in FirstMappings, n \in NextMappings}

PicklistSets ==
  { <<>>,
    << <<"codes.csv",
         Frame(<<Column("code", "int64", <<CellInt(1)>>),
                 Column("label", "object", <<CellStr(<<"a">>)>>)>>)>>,
       <<"b.csv",
         Frame(<<Column("B", "int64", <<CellInt(1), CellInt(1)>>),
                 Column("label", "object",
                        <<CellStr(<<"a">>), CellStr(<<"N">>)>>)>>)>> >>,
    << <<"a.csv", Frame(<<Column("A", "object", <<CellStr(<<"a">>)>>)>>)>> >> }

PayInit ==
  /\ fs = [p \in Paths |-> NoFile]
  /\ ret = [raised |-> FALSE, val |-> None, err |-> FALSE]
  /\ op = Op("init", "level", None, FALSE)
  /\ ui = <<>>
  /\ sess = SessInit
  /\ EdVarsInit
  /\ UpVarsInit
  /\ MapVarsInit
  /\ AdmVarsInit
  /\ DetVarsInit
  /\ \E df \in PayFrames : payroll = [call |-> "read_excel", out |-> df]

PayFrame ==
  UNCHANGED <<fs, ret, op, ui, sess, edVars, upVars, mapVars, admVars, detVars>>

\* lines 165-166
CleanseDataframe(trim, lower, empty_nan, drop_null) ==
  /\ payroll.call = "read_excel"
  /\ payroll' =
       [call |-> "cleanse", df |-> payroll.out,
        args |-> [trim |-> trim, lower |-> lower, empty_nan |-> empty_nan,
                  drop_null |-> drop_null],
        out |-> cleanse_dataframe(payroll.out, trim, lower, empty_nan, drop_null)]
  /\ PayFrame

\* lines 168-173
ApplyTransformations(mappings, picklists) ==
  /\ payroll.call = "cleanse"
  /\ payroll' =
       [call |-> "transform", df |-> payroll.out,
        args |-> [mappings |-> mappings, picklists |-> picklists],
        out |-> apply_transformations(payroll.out, mappings, picklists)]
  /\ PayFrame

PayNext ==
  \/ \E trim \in BOOLEAN, lower \in BOOLEAN, empty_nan \in BOOLEAN,
        drop_null \in BOOLEAN :
       CleanseDataframe(trim, lower, empty_nan, drop_null)
  \/ \E mappings \in MappingLists, picklists \in PicklistSets :
       ApplyTransformations(mappings, picklists)

SpecPay == PayInit /\ [][PayNext]_vars

TransformCall == payroll.call = "transform"
SourceOf(m) == DictGet(m, "source_column", "")
DestinationOf(m) == DictGet(m, "destination_column", "")
TransformationOf(m) == DictGet(m, "transformation", "None")
UpperForms(col) ==
  [r \in 1..Len(col.vals) |-> CellStr(StrUpper(PyStr(col.vals[r])))]
LowerForms(col) ==
  [r \in 1..Len(col.vals) |-> CellStr(StrLower(PyStr(col.vals[r])))]
StrippedForms(col) ==
  [r \in 1..Len(col.vals) |-> CellStr(Strip(PyStr(col.vals[r])))]
TitleForms(col) ==
  [r \in 1..Len(col.vals) |-> CellStr(StrTitle(PyStr(col.vals[r])))]
\* what the claim says of the destination column of mapping m
DestinationAsMapped(m) ==
  LET src == ColumnOf(payroll.df, SourceOf(m))
      dst == ColumnOf(payroll.out, DestinationOf(m))
      t == TransformationOf(m)
      picklists == payroll.args.picklists
  IN /\ HasColumn(payroll.out, DestinationOf(m))
     /\ (\/ t = "None"
         \/ t \notin TransformationNames
         \/ /\ t = "Lookup Value"
            /\ \/ picklists = <<>>
               \/ \A i \in 1..Len(picklists) :
                    ~HasColumn(picklists[i][2], SourceOf(m)))
          => dst.vals = src.vals /\ dst.dtype = src.dtype
     /\ t = "UPPERCASE" => dst.vals = UpperForms(src)
     /\ t = "lowercase" => dst.vals = LowerForms(src)
     /\ t = "Trim Whitespace" => dst.vals = StrippedForms(src)
     /\ t = "Title Case" => dst.vals = TitleForms(src)
IsLastFor(mappings, i) ==
  \A j \in (i + 1)..Len(mappings) :
    DestinationOf(mappings[j]) # DestinationOf(mappings[i])

\* C14 as stated: the returned frame has the rows of the input and, for every
\* mapping, the destination column is the source column of the input frame:
\* identical for 'None', an unrecognised name and a 'Lookup Value' without
\* picklists or without a picklist that has the source column, and the
\* upper-cased, lower-cased, stripped or title-cased string form for
\* 'UPPERCASE', 'lowercase', 'Trim Whitespace' and 'Title Case'.
EveryMappingApplied ==
  TransformCall =>
    /\ payroll.out.index = payroll.df.index
    /\ \A i \in 1..Len(payroll.args.mappings) :
         DestinationAsMapped(payroll.args.mappings[i])

\* C14, amended: the same for every mapping that no later mapping of the
\* list follows with the same destination column; of the mappings of one
\* destination column the last one decides.
LastMappingApplied ==
  TransformCall =>
    /\ payroll.out.index = payroll.df.index
    /\ \A i \in 1..Len(payroll.args.mappings) :
         IsLastFor(payroll.args.mappings, i)
           => DestinationAsMapped(payroll.args.mappings[i])

\* two mappings, the first writes column A and the second reads column A of
\* the input frame, after a cleansing that dropped a row
LastMappingAppliedWitness ==
  /\ TransformCall
  /\ Len(payroll.args.mappings) = 2
  /\ DestinationOf(payroll.args.mappings[1]) = "A"
  /\ SourceOf(payroll.args.mappings[1]) = "B"
  /\ SourceOf(payroll.args.mappings[2]) = "A"
  /\ TransformationOf(payroll.args.mappings[2]) = "Title Case"
  /\ ColumnOf(payroll.out, "Y").vals
       # ColumnOf(payroll.out, "A").vals
  /\ payroll.df.index = <<2>>

\* C15: with drop_null=True no row of the input that has a null cell is in
\* the output, whatever the trim, lower and empty_nan options are.
NullRowsDropped ==
  (payroll.call = "cleanse" /\ payroll.args.drop_null) =>
    \A k \in 1..Len(payroll.out.index) :
      \A r \in 1..Len(payroll.df.index) :
        payroll.df.index[r] = payroll.out.index[k] => ~IsNullRow(payroll.df, r)

Init == CfgInit
Next ==
  CfgNext \/ FsNext \/ EdNext \/ UpNext \/ MapNext \/ AdmNext \/ DetNext
    \/ PayNext
Spec == Init /\ [][Next]_vars
====
